---- MODULE Spec2Model ----
(***************************************************************************)
(* Signal-to-position execution pipeline of the NIFTY paper-trading bot:   *)
(* the T+1 order manager, the position tracker, the strategy's level and   *)
(* exit rules, the candle-close orchestrator and its two drivers (the      *)
(* historical replay of Phase 4 and the live polling loop of Phase 3).     *)
(*                                                                         *)
(* Units.  Prices are integers in hundredths of a point, ATR values in     *)
(* thousandths of a point.  An instant is an integer number of ticks;      *)
(* TicksPerCandle ticks make one 5-minute candle and SlotsPerDay candles   *)
(* one trading day that starts at 09:15.  A candle's timestamp is the      *)
(* instant at which its 5-minute block starts.                             *)
(***************************************************************************)
EXTENDS Integers, Sequences, FiniteSets, TLC

VARIABLES
    \* PaperOrderManager
    pending_signal, pending_signal_time,
    \* PositionTracker
    open_positions, closed_positions, next_order,
    \* record of the last operation (its name, time, result)
    last_op,
    \* IndicatorCalculator
    nifty_buffer, ce_buffer, pe_buffer, nifty_df,
    nifty_indicators, ce_indicators, pe_indicators,
    \* LiveDataStreamer: latest_prices, running, and the replay thread's
    \* position and its local last_date
    latest_prices, streamer_running, replay_pc, last_date,
    \* LiveTraderMain: running, the main thread's position, what its local
    \* prices refers to, and what has happened to the process: the shutdown
    \* signal received, force_close_all_positions called, save_all called
    trader_running, main_pc, prices_ref, stop_signal, force_closed, logs_saved,
    \* Phase 3 live session: the wall clock and the instant of the main
    \* loop's last poll; the streamer's forming candles and their start; the
    \* websocket thread's position in a tick that closes the candles, with
    \* the tick and the signal it is handling
    now, last_poll, current_candles, current_candle_start,
    cb_pc, ws_tick, cb_signal, cb_signal_time,
    \* API server, TradingBot: status, and the position of every thread that
    \* start has created (bot_thread is the last of them)
    status, bot_threads

om_vars == <<pending_signal, pending_signal_time, open_positions,
             closed_positions, next_order>>
calc_vars == <<nifty_buffer, ce_buffer, pe_buffer, nifty_df,
               nifty_indicators, ce_indicators, pe_indicators>>
streamer_vars == <<latest_prices, streamer_running, replay_pc, last_date>>
trader_vars == <<trader_running, main_pc, prices_ref, stop_signal,
                 force_closed, logs_saved>>
bot_vars == <<status, bot_threads>>
live_vars == <<now, last_poll, current_candles, current_candle_start,
               cb_pc, ws_tick, cb_signal, cb_signal_time, bot_vars>>
vars == <<om_vars, last_op, calc_vars, streamer_vars, trader_vars, live_vars>>

----------------------------------------------------------------------------
\* Bounds of the model
\* signals are offered to the order manager while fewer trades than this are closed
MaxTrades == 1
\* clock ticks per 5-minute candle
TicksPerCandle == 2
\* candles of the replay window the streamer delivers
MaxCandles == 15
\* the earliest slot of a day after which the feed's rows of that day may end
EarliestDayEnd == 12
\* clock ticks of a live session after its launch
MaxLiveTicks == 3

\* Python values.  None stands for a signal that is None; a time that is None
\* is NoTime, an order id that is None is NoOrder, a strike that is 'N/A' is
\* NoStrike, a number that is NaN or None is NaN, and a dict that is None or
\* missing is Absent.
None == "None"
NoTime == 0 - 1
NoOrder == 0 - 1
NoStrike == 0 - 1
NoDate == 0 - 1
NaN == 0 - 999999
Absent == [absent |-> TRUE]

BUY_CE == "BUY_CE"
BUY_PE == "BUY_PE"
Signals == {BUY_CE, BUY_PE}

\* StrategyV30.__init__
SL_MULTIPLIER == 2
TP1_POINTS == 1000
LOT_SIZE == 75
MAX_SL_POINTS == 26670
ENTRY_START == 570
ENTRY_END == 910
EOD_EXIT_TIME == 925
\* execute_pending_signal: 0.5 point slippage; update_positions: +13 lock
SLIPPAGE == 50
TP1_LOCK_POINTS == 1300
\* the session 09:15-15:30 in 5-minute candles
MarketOpenMinute == 555
SlotsPerDay == 75
CandleMinutes == 5
\* IndicatorCalculator: buffer size, stability gates and indicator periods
CANDLE_BUFFER_SIZE == 5000
STABILITY_MIN_CANDLES == 50
DAILY_MIN_CANDLES == 13
EMA_PERIOD == 21
VI_PERIOD == 21
ATR_PERIOD == 14
\* LiveDataStreamer: the number of replay dates
REPLAY_DAYS == 3

----------------------------------------------------------------------------
\* Helpers for Python semantics

IsNa(x) == x = NaN

Min(a, b) == IF a <= b THEN a ELSE b
Max(a, b) == IF a >= b THEN a ELSE b

\* round(x, 2) of a value given in thousandths, result in hundredths
\* (round half to even, as Python 3 rounds)
Round2(milli) ==
    LET q == milli \div 10
        r == milli % 10
    IN  IF r < 5 THEN q
        ELSE IF r > 5 THEN q + 1
        ELSE IF q % 2 = 0 THEN q ELSE q + 1

\* datetime.time() of an instant, in minutes since midnight
TimeOfDay(t) ==
    MarketOpenMinute
      + ((t % (TicksPerCandle * SlotsPerDay)) * CandleMinutes) \div TicksPerCandle

\* datetime.date() of an instant, as a day number
DateOf(t) == t \div (TicksPerCandle * SlotsPerDay)

\* the 5-minute candle an instant falls in
CandleOf(t) == t \div TicksPerCandle

\* the ids of a dict in insertion order (order ids are issued increasing)
RECURSIVE SortedIds(_)
SortedIds(S) ==
    IF S = {} THEN <<>>
    ELSE LET m == CHOOSE x \in S : \A y \in S : x <= y
         IN  <<m>> \o SortedIds(S \ {m})

----------------------------------------------------------------------------
\* StrategyV30

\* a variant of calculate_entry_levels without the cap on the stop distance
calculate_entry_levels_Uncapped(side, entry_price, option_atr) ==
    LET atr_based_sl == SL_MULTIPLIER * option_atr
    IN  [sl |-> Round2(entry_price * 10 - atr_based_sl),
         tp1 |-> entry_price + TP1_POINTS,
         atr_based_sl |-> atr_based_sl]

calculate_entry_levels(side, entry_price, option_atr) ==
    LET atr_based_sl == SL_MULTIPLIER * option_atr
        actual_sl_distance == Min(atr_based_sl, MAX_SL_POINTS)
    IN  [sl |-> Round2(entry_price * 10 - actual_sl_distance),
         tp1 |-> entry_price + TP1_POINTS,
         atr_based_sl |-> atr_based_sl]

check_sl_hit(side, current_close, sl_level) == current_close <= sl_level

check_macd_ema_exit(side, tp1_hit, nifty_close, ema, macd_hist) ==
    IF ~tp1_hit THEN FALSE
    ELSE IF side = BUY_CE THEN (nifty_close < ema) \/ (macd_hist < 0)
    ELSE IF side = BUY_PE THEN (nifty_close > ema) \/ (macd_hist > 0)
    ELSE FALSE

\* a variant of check_eod_exit that starts one minute after EOD_EXIT_TIME
check_eod_exit_After(current_time) == current_time > EOD_EXIT_TIME

check_eod_exit(current_time) == current_time >= EOD_EXIT_TIME

----------------------------------------------------------------------------
\* PositionTracker.  The operators take the order manager's and tracker's
\* state as a record s of the five variables and return the new record.

OMState == [pending_signal |-> pending_signal,
            pending_signal_time |-> pending_signal_time,
            open_positions |-> open_positions,
            closed_positions |-> closed_positions,
            next_order |-> next_order]

SetOM(s) ==
    /\ pending_signal' = s.pending_signal
    /\ pending_signal_time' = s.pending_signal_time
    /\ open_positions' = s.open_positions
    /\ closed_positions' = s.closed_positions
    /\ next_order' = s.next_order

get_open_position_count(s) == Cardinality(DOMAIN s.open_positions)

get_all_open_positions(s) == SortedIds(DOMAIN s.open_positions)

NewPosition(order_id, side, strike, entry_price, sl, tp1, entry_time, signal_time) ==
    [order_id |-> order_id,
     side |-> side,
     strike |-> strike,
     entry_price |-> entry_price,
     entry_time |-> entry_time,
     signal_time |-> signal_time,
     quantity |-> LOT_SIZE,
     sl |-> sl,
     initial_sl |-> sl,
     tp1 |-> tp1,
     tp1_hit |-> FALSE,
     highest_price |-> entry_price,
     current_price |-> entry_price,
     unrealized_pnl_points |-> 0,
     unrealized_pnl_inr |-> 0,
     status |-> "OPEN"]

open_position(s, side, strike, entry_price, sl, tp1, entry_time, signal_time) ==
    LET order_id == s.next_order
        position == NewPosition(order_id, side, strike, entry_price, sl, tp1,
                                entry_time, signal_time)
    IN  [s |-> [s EXCEPT !.open_positions = (order_id :> position) @@ @,
                         !.next_order = @ + 1],
         ret |-> order_id]

update_position(s, order_id, current_price) ==
    IF order_id \notin DOMAIN s.open_positions THEN s
    ELSE LET position == s.open_positions[order_id]
             pnl_points == current_price - position.entry_price
             pnl_inr == pnl_points * position.quantity
         IN  [s EXCEPT !.open_positions[order_id] =
                 [position EXCEPT
                     !.current_price = current_price,
                     !.highest_price = Max(position.highest_price, current_price),
                     !.unrealized_pnl_points = Round2(pnl_points * 10),
                     !.unrealized_pnl_inr = Round2(pnl_inr * 10)]]

\* a variant of check_tp1_hit that is level-triggered: true on every call
\* with the high at or above tp1
check_tp1_hit_LevelTriggered(s, order_id, current_high) ==
    IF order_id \notin DOMAIN s.open_positions THEN [s |-> s, ret |-> FALSE]
    ELSE LET position == s.open_positions[order_id]
         IN  IF current_high >= position.tp1
             THEN [s |-> [s EXCEPT !.open_positions[order_id].tp1_hit = TRUE],
                   ret |-> TRUE]
             ELSE [s |-> s, ret |-> FALSE]

check_tp1_hit(s, order_id, current_high) ==
    IF order_id \notin DOMAIN s.open_positions THEN [s |-> s, ret |-> FALSE]
    ELSE LET position == s.open_positions[order_id]
         IN  IF ~position.tp1_hit /\ current_high >= position.tp1
             THEN [s |-> [s EXCEPT !.open_positions[order_id].tp1_hit = TRUE],
                   ret |-> TRUE]
             ELSE [s |-> s, ret |-> FALSE]

\* a variant of update_trailing_sl that moves the stop below the entry by
\* as much as the new level is above it
update_trailing_sl_Below(s, order_id, new_sl) ==
    IF order_id \notin DOMAIN s.open_positions THEN s
    ELSE [s EXCEPT !.open_positions[order_id].sl =
                       2 * s.open_positions[order_id].entry_price - new_sl]

update_trailing_sl(s, order_id, new_sl) ==
    IF order_id \notin DOMAIN s.open_positions THEN s
    ELSE [s EXCEPT !.open_positions[order_id].sl = new_sl]

\* a variant of the P&L of close_position that multiplies the rounded points
ClosePnl_FromRounded(entry_price, exit_price, quantity) ==
    LET pnl_points == exit_price - entry_price
    IN  [pnl_points |-> Round2(pnl_points),
         pnl_inr |-> Round2(pnl_points) * quantity]

\* close_position, the final P&L: prices in thousandths of a point, the
\* rounded results in hundredths
ClosePnl(entry_price, exit_price, quantity) ==
    LET pnl_points == exit_price - entry_price
        pnl_inr == pnl_points * quantity
    IN  [pnl_points |-> Round2(pnl_points),
         pnl_inr |-> Round2(pnl_inr)]

ClosedRecord(position, exit_price, exit_reason, exit_time) ==
    LET pnl == ClosePnl(position.entry_price * 10, exit_price * 10,
                        position.quantity)
    IN  [order_id |-> position.order_id,
         side |-> position.side,
         strike |-> position.strike,
         entry_price |-> position.entry_price,
         entry_time |-> position.entry_time,
         signal_time |-> position.signal_time,
         quantity |-> position.quantity,
         sl |-> position.sl,
         initial_sl |-> position.initial_sl,
         tp1 |-> position.tp1,
         tp1_hit |-> position.tp1_hit,
         highest_price |-> position.highest_price,
         current_price |-> position.current_price,
         unrealized_pnl_points |-> position.unrealized_pnl_points,
         unrealized_pnl_inr |-> position.unrealized_pnl_inr,
         exit_price |-> exit_price,
         exit_reason |-> exit_reason,
         exit_time |-> exit_time,
         pnl_points |-> pnl.pnl_points,
         pnl_inr |-> pnl.pnl_inr,
         status |-> "CLOSED"]

\* a variant of close_position that records the close and leaves the
\* position in the open set
close_position_KeepsOpen(s, order_id, exit_price, exit_reason, exit_time) ==
    IF order_id \notin DOMAIN s.open_positions
    THEN [s |-> s, found |-> FALSE, log |-> "error", exc |-> None]
    ELSE LET position == s.open_positions[order_id]
             closed == ClosedRecord(position, exit_price, exit_reason, exit_time)
         IN  [s |-> [s EXCEPT !.closed_positions = Append(@, closed)],
              found |-> TRUE, log |-> "info", exc |-> None]

\* a variant of close_position that, for an order id that is not open,
\* records the last closed position once more
close_position_ClosesAgain(s, order_id, exit_price, exit_reason, exit_time) ==
    IF order_id \notin DOMAIN s.open_positions
    THEN [s |-> IF s.closed_positions = <<>> THEN s
                ELSE [s EXCEPT !.closed_positions =
                                   Append(@, @[Len(@)])],
          found |-> FALSE, log |-> "error", exc |-> None]
    ELSE close_position_KeepsOpen(s, order_id, exit_price, exit_reason, exit_time)

\* close_position: found is false when the method returns None; log is the
\* level of the line it logs, exc the exception it raises (none)
close_position(s, order_id, exit_price, exit_reason, exit_time) ==
    IF order_id \notin DOMAIN s.open_positions
    THEN [s |-> s, found |-> FALSE, log |-> "error", exc |-> None]
    ELSE LET position == s.open_positions[order_id]
             closed == ClosedRecord(position, exit_price, exit_reason, exit_time)
         IN  [s |-> [s EXCEPT
                       !.open_positions =
                           [k \in DOMAIN s.open_positions \ {order_id} |->
                               s.open_positions[k]],
                       !.closed_positions = Append(@, closed)],
              found |-> TRUE, log |-> "info", exc |-> None]

----------------------------------------------------------------------------
\* Indicator snapshots and option candle data, as the dicts the code passes

\* IndicatorCalculator.nifty_indicators: {} until the first successful
\* calculation, then close / ema / macd_hist / timestamp of the latest row
NoIndicators == [computed |-> FALSE, close |-> 0, ema |-> 0, macd_hist |-> 0,
                 timestamp |-> NoTime]

\* dict.get(key, default) on an indicator snapshot
IndGet(ind, key, default) == IF ind.computed THEN ind[key] ELSE default

----------------------------------------------------------------------------
\* PaperOrderManager

\* faulty variants of the guards below, used to show that the properties
\* checked depend on them
PositionAlreadyOpen_Never(s) == FALSE
ClearPending_Keeps(s) == s
NotLaterCandle_Strict(current_time, signal_time) == current_time < signal_time
OptionDataMissing_AbsentOnly(option_data) == option_data = Absent
IsEntryCandle_Never(current_candle_time, entry_time) == FALSE
PendingSignalExists_Never(s) == FALSE

\* on_signal_detected, first guard: a position is already open
PositionAlreadyOpen(s) == get_open_position_count(s) >= 1

\* on_signal_detected, second guard: a signal is already queued
PendingSignalExists(s) == s.pending_signal # None

on_signal_detected(s, signal, signal_time) ==
    IF PositionAlreadyOpen(s) THEN s
    ELSE IF PendingSignalExists(s) THEN s
    ELSE [s EXCEPT !.pending_signal = signal,
                   !.pending_signal_time = signal_time]

\* execute_pending_signal, the T+1 guard: the current candle is not later
\* than the signal's candle
NotLaterCandle(current_time, signal_time) == current_time <= signal_time

\* execute_pending_signal, the validation of the selected option data
OptionDataMissing(option_data) ==
    \/ option_data = Absent
    \/ IsNa(option_data.open)
    \/ IsNa(option_data.atr)

ClearPending(s) ==
    [s EXCEPT !.pending_signal = None, !.pending_signal_time = NoTime]

\* Returns the new state, the returned order id (or None) and the exception
\* raised, if any: comparing a datetime with None raises TypeError.
execute_pending_signal(s, ce_data, pe_data, current_time) ==
    IF s.pending_signal = None
    THEN [s |-> s, ret |-> NoOrder, exc |-> None]
    ELSE IF current_time = NoTime \/ s.pending_signal_time = NoTime
    THEN [s |-> s, ret |-> NoOrder, exc |-> "TypeError"]
    ELSE IF NotLaterCandle(current_time, s.pending_signal_time)
    THEN [s |-> s, ret |-> NoOrder, exc |-> None]
    ELSE
      LET signal == s.pending_signal
          signal_time == s.pending_signal_time
          option_data == IF signal = BUY_CE THEN ce_data ELSE pe_data
      IN  IF OptionDataMissing(option_data)
          THEN [s |-> ClearPending(s), ret |-> NoOrder, exc |-> None]
          ELSE
            LET entry_price == option_data.open + SLIPPAGE
                option_atr == option_data.atr
                strike == option_data.strike_price
                levels == calculate_entry_levels(signal, entry_price, option_atr)
                opened == open_position(s, signal, strike, entry_price,
                                        levels.sl, levels.tp1,
                                        current_time, signal_time)
            IN  [s |-> ClearPending(opened.s), ret |-> opened.ret, exc |-> None]

\* a variant of _check_exit_conditions that tests the end of day first
check_exit_conditions_EodFirst(position, current_price, indicators, current_candle_time) ==
    IF current_candle_time = NoTime
    THEN [exit |-> FALSE, reason |-> None, price |-> 0, exc |-> "AttributeError"]
    ELSE IF check_eod_exit(TimeOfDay(current_candle_time))
    THEN [exit |-> TRUE, reason |-> "EOD Exit", price |-> current_price,
          exc |-> None]
    ELSE IF check_sl_hit(position.side, current_price, position.sl)
    THEN [exit |-> TRUE, reason |-> "SL Hit", price |-> position.sl, exc |-> None]
    ELSE IF check_macd_ema_exit(position.side, position.tp1_hit,
                                IndGet(indicators, "close", 0),
                                IndGet(indicators, "ema", 0),
                                IndGet(indicators, "macd_hist", 0))
    THEN [exit |-> TRUE, reason |-> "MACD/EMA Exit", price |-> current_price,
          exc |-> None]
    ELSE [exit |-> FALSE, reason |-> None, price |-> 0, exc |-> None]

\* _check_exit_conditions: the first matching rule, or no exit.
\* current_candle_time.time() raises AttributeError when the time is None.
check_exit_conditions(position, current_price, indicators, current_candle_time) ==
    IF check_sl_hit(position.side, current_price, position.sl)
    THEN [exit |-> TRUE, reason |-> "SL Hit", price |-> position.sl, exc |-> None]
    ELSE IF check_macd_ema_exit(position.side, position.tp1_hit,
                                IndGet(indicators, "close", 0),
                                IndGet(indicators, "ema", 0),
                                IndGet(indicators, "macd_hist", 0))
    THEN [exit |-> TRUE, reason |-> "MACD/EMA Exit", price |-> current_price,
          exc |-> None]
    ELSE IF current_candle_time = NoTime
    THEN [exit |-> FALSE, reason |-> None, price |-> 0, exc |-> "AttributeError"]
    ELSE IF check_eod_exit(TimeOfDay(current_candle_time))
    THEN [exit |-> TRUE, reason |-> "EOD Exit", price |-> current_price,
          exc |-> None]
    ELSE [exit |-> FALSE, reason |-> None, price |-> 0, exc |-> None]

\* update_positions, the entry-candle guard of the loop
IsEntryCandle(current_candle_time, entry_time) == current_candle_time = entry_time

\* a variant of the loop body that checks the exits on the position as it
\* was before the TP1 check and the profit lock
UpdateOnePosition_ExitBeforeLock(s, order_id, a) ==
    LET position0 == s.open_positions[order_id]
        side == position0.side
    IN  IF IsEntryCandle(a.current_candle_time, position0.entry_time)
        THEN [s |-> s, closed |-> FALSE, exc |-> None]
        ELSE
          LET current_price == IF side = BUY_CE THEN a.ce_price ELSE a.pe_price
              current_high == IF side = BUY_CE THEN a.ce_high ELSE a.pe_high
              s1 == update_position(s, order_id, current_price)
              tp == check_tp1_hit(s1, order_id, current_high)
              new_sl == Round2((position0.entry_price + TP1_LOCK_POINTS) * 10)
              s2 == IF tp.ret THEN update_trailing_sl(tp.s, order_id, new_sl)
                    ELSE tp.s
              exit_info == check_exit_conditions(s1.open_positions[order_id],
                               current_price, a.nifty_indicators,
                               a.current_candle_time)
          IN  IF exit_info.exc # None
              THEN [s |-> s2, closed |-> FALSE, exc |-> exit_info.exc]
              ELSE IF exit_info.exit
              THEN LET c == close_position(s2, order_id, exit_info.price,
                                exit_info.reason, a.current_candle_time)
                   IN  [s |-> c.s, closed |-> c.found, exc |-> None]
              ELSE [s |-> s2, closed |-> FALSE, exc |-> None]

\* update_positions, the body of the loop for one open position;
\* a is the record of update_positions' arguments
\* a variant of the loop body that updates the price tracking of a position
\* on its entry candle and skips only the exit checks
UpdateOnePosition_TracksEntryCandle(s, order_id, a) ==
    LET position0 == s.open_positions[order_id]
        side == position0.side
        current_price == IF side = BUY_CE THEN a.ce_price ELSE a.pe_price
        current_high == IF side = BUY_CE THEN a.ce_high ELSE a.pe_high
        s1 == update_position(s, order_id, current_price)
    IN  IF IsEntryCandle(a.current_candle_time, position0.entry_time)
        THEN [s |-> s1, closed |-> FALSE, exc |-> None]
        ELSE
          LET tp == check_tp1_hit(s1, order_id, current_high)
              new_sl == Round2((position0.entry_price + TP1_LOCK_POINTS) * 10)
              s2 == IF tp.ret THEN update_trailing_sl(tp.s, order_id, new_sl)
                    ELSE tp.s
              exit_info == check_exit_conditions(s2.open_positions[order_id],
                               current_price, a.nifty_indicators,
                               a.current_candle_time)
          IN  IF exit_info.exc # None
              THEN [s |-> s2, closed |-> FALSE, exc |-> exit_info.exc]
              ELSE IF exit_info.exit
              THEN LET c == close_position(s2, order_id, exit_info.price,
                                exit_info.reason, a.current_candle_time)
                   IN  [s |-> c.s, closed |-> c.found, exc |-> None]
              ELSE [s |-> s2, closed |-> FALSE, exc |-> None]

UpdateOnePosition(s, order_id, a) ==
    LET position0 == s.open_positions[order_id]
        side == position0.side
    IN  IF IsEntryCandle(a.current_candle_time, position0.entry_time)
        THEN [s |-> s, closed |-> FALSE, exc |-> None]
        ELSE
          LET current_price == IF side = BUY_CE THEN a.ce_price ELSE a.pe_price
              current_high == IF side = BUY_CE THEN a.ce_high ELSE a.pe_high
              s1 == update_position(s, order_id, current_price)
              tp == check_tp1_hit(s1, order_id, current_high)
              new_sl == Round2((position0.entry_price + TP1_LOCK_POINTS) * 10)
              s2 == IF tp.ret THEN update_trailing_sl(tp.s, order_id, new_sl)
                    ELSE tp.s
              exit_info == check_exit_conditions(s2.open_positions[order_id],
                               current_price, a.nifty_indicators,
                               a.current_candle_time)
          IN  IF exit_info.exc # None
              THEN [s |-> s2, closed |-> FALSE, exc |-> exit_info.exc]
              ELSE IF exit_info.exit
              THEN LET c == close_position(s2, order_id, exit_info.price,
                                exit_info.reason, a.current_candle_time)
                   IN  [s |-> c.s, closed |-> c.found, exc |-> None]
              ELSE [s |-> s2, closed |-> FALSE, exc |-> None]

\* the loop over the snapshot list of open positions
RECURSIVE UpdateLoop(_, _, _, _)
UpdateLoop(s, ids, closed_orders, a) ==
    IF ids = <<>> THEN [s |-> s, closed_orders |-> closed_orders, exc |-> None]
    ELSE LET r == UpdateOnePosition(s, Head(ids), a)
         IN  IF r.exc # None
             THEN [s |-> r.s, closed_orders |-> closed_orders, exc |-> r.exc]
             ELSE UpdateLoop(r.s, Tail(ids),
                             IF r.closed THEN Append(closed_orders, Head(ids))
                             ELSE closed_orders,
                             a)

UpdateArgs(ce_price, pe_price, ce_high, pe_high, ce_data, pe_data, indicators, current_candle_time) ==
    [ce_price |-> ce_price, pe_price |-> pe_price,
     ce_high |-> ce_high, pe_high |-> pe_high,
     ce_data |-> ce_data, pe_data |-> pe_data,
     nifty_indicators |-> indicators,
     current_candle_time |-> current_candle_time]

\* update_positions: STEP 1 executes the pending signal, STEP 2 updates and
\* exit-checks every open position.  Returns the state, the closed orders,
\* the order id STEP 1 opened (or None) and the exception raised, if any.
update_positions(s, a) ==
    LET e == execute_pending_signal(s, a.ce_data, a.pe_data, a.current_candle_time)
    IN  IF e.exc # None
        THEN [s |-> e.s, closed_orders |-> <<>>, new_order_id |-> NoOrder,
              exc |-> e.exc]
        ELSE LET l == UpdateLoop(e.s, get_all_open_positions(e.s), <<>>, a)
             IN  [s |-> l.s, closed_orders |-> l.closed_orders,
                  new_order_id |-> e.ret, exc |-> l.exc]

\* force_close_all_positions; exit_time stands for datetime.now()
RECURSIVE ForceCloseLoop(_, _, _, _, _)
ForceCloseLoop(s, ids, ce_price, pe_price, exit_time) ==
    IF ids = <<>> THEN s
    ELSE LET position == s.open_positions[Head(ids)]
             exit_price == IF position.side = BUY_CE THEN ce_price ELSE pe_price
             c == close_position(s, Head(ids), exit_price, "Force EOD Close",
                                 exit_time)
         IN  ForceCloseLoop(c.s, Tail(ids), ce_price, pe_price, exit_time)

\* a variant of force_close_all_positions that closes one position only
force_close_all_positions_FirstOnly(s, ce_price, pe_price, exit_time) ==
    LET ids == get_all_open_positions(s)
    IN  ForceCloseLoop(s, IF ids = <<>> THEN ids ELSE <<Head(ids)>>, ce_price,
                       pe_price, exit_time)

\* a variant of force_close_all_positions that closes the BUY_CE positions only
force_close_all_positions_CallsOnly(s, ce_price, pe_price, exit_time) ==
    ForceCloseLoop(s, SelectSeq(get_all_open_positions(s),
                                LAMBDA order_id : s.open_positions[order_id].side = BUY_CE),
                   ce_price, pe_price, exit_time)

force_close_all_positions(s, ce_price, pe_price, exit_time) ==
    ForceCloseLoop(s, get_all_open_positions(s), ce_price, pe_price, exit_time)

----------------------------------------------------------------------------
\* IndicatorCalculator.  A candle buffer is kept as what the code reads of
\* it: its length, the number of its candles dated as the latest one, and its
\* last two candles.  A NIFTY candle carries the values the indicator
\* formulas take at its row (close, EMA, MACD histogram, VI+ and VI-); an
\* option candle carries the value ATR takes at its row.  The operators take
\* the calculator's state as a record c and return the new record.

EmptyBuffer == [len |-> 0, today |-> 0, rows |-> <<>>]

NoOptionIndicators == [computed |-> FALSE, atr |-> 0, timestamp |-> NoTime]

LastRow(buffer) == buffer.rows[Len(buffer.rows)]

\* deque(maxlen=buffer_size).append
BufferAppend(buffer, candle) ==
    [len |-> Min(buffer.len + 1, CANDLE_BUFFER_SIZE),
     today |-> IF buffer.len > 0
                  /\ DateOf(LastRow(buffer).timestamp) = DateOf(candle.timestamp)
               THEN Min(buffer.today + 1, CANDLE_BUFFER_SIZE)
               ELSE 1,
     rows |-> IF buffer.rows = <<>> THEN <<candle>>
              ELSE <<LastRow(buffer), candle>>]

add_candle(c, instrument_type, candle) ==
    IF instrument_type = "NIFTY"
    THEN [c EXCEPT !.nifty_buffer = BufferAppend(@, candle)]
    ELSE IF instrument_type = "CE"
    THEN [c EXCEPT !.ce_buffer = BufferAppend(@, candle)]
    ELSE IF instrument_type = "PE"
    THEN [c EXCEPT !.pe_buffer = BufferAppend(@, candle)]
    ELSE c

\* variants of the gates: a stability gate that lets 49 candles through, one
\* that blocks 50 candles, and a daily gate that counts the whole buffer
StabilityGateBlocks_OffByOne(buffer) == buffer.len < STABILITY_MIN_CANDLES - 1
StabilityGateBlocks_Inclusive(buffer) == buffer.len <= STABILITY_MIN_CANDLES
DailyGateBlocks_CountsBuffer(buffer) == buffer.len < DAILY_MIN_CANDLES
DailyGateBlocks_Never(buffer) == FALSE

\* the stability gates of calculate_nifty_indicators
StabilityGateBlocks(buffer) == buffer.len < STABILITY_MIN_CANDLES
PeriodGateBlocks(buffer) == buffer.len < Max(EMA_PERIOD, VI_PERIOD)
DailyGateBlocks(buffer) == buffer.len > 0 /\ buffer.today < DAILY_MIN_CANDLES

calculate_nifty_indicators(c) ==
    IF StabilityGateBlocks(c.nifty_buffer) THEN [c |-> c, ret |-> FALSE]
    ELSE IF PeriodGateBlocks(c.nifty_buffer) THEN [c |-> c, ret |-> FALSE]
    ELSE IF DailyGateBlocks(c.nifty_buffer) THEN [c |-> c, ret |-> FALSE]
    ELSE LET latest == LastRow(c.nifty_buffer)
         IN  [c |-> [c EXCEPT
                       !.nifty_df = [len |-> c.nifty_buffer.len,
                                     rows |-> c.nifty_buffer.rows],
                       !.nifty_indicators =
                           [computed |-> TRUE, close |-> latest.close,
                            ema |-> latest.ema, macd_hist |-> latest.macd_hist,
                            timestamp |-> latest.timestamp]],
              ret |-> TRUE]

calculate_option_indicators(c, option_type) ==
    LET buffer == IF option_type = "CE" THEN c.ce_buffer ELSE c.pe_buffer
    IN  IF buffer.len < ATR_PERIOD THEN [c |-> c, ret |-> FALSE]
        ELSE LET latest == LastRow(buffer)
                 indicators == [computed |-> TRUE, atr |-> latest.atr,
                                timestamp |-> latest.timestamp]
             IN  [c |-> IF option_type = "CE"
                        THEN [c EXCEPT !.ce_indicators = indicators]
                        ELSE [c EXCEPT !.pe_indicators = indicators],
                  ret |-> TRUE]

get_option_indicators(c, option_type) ==
    IF option_type = "CE" THEN c.ce_indicators ELSE c.pe_indicators

reset_option_buffers(c) ==
    [c EXCEPT !.ce_buffer = EmptyBuffer, !.pe_buffer = EmptyBuffer,
              !.ce_indicators = NoOptionIndicators,
              !.pe_indicators = NoOptionIndicators]

CalcState == [nifty_buffer |-> nifty_buffer, ce_buffer |-> ce_buffer,
              pe_buffer |-> pe_buffer, nifty_df |-> nifty_df,
              nifty_indicators |-> nifty_indicators,
              ce_indicators |-> ce_indicators, pe_indicators |-> pe_indicators]

SetCalc(c) ==
    /\ nifty_buffer' = c.nifty_buffer
    /\ ce_buffer' = c.ce_buffer
    /\ pe_buffer' = c.pe_buffer
    /\ nifty_df' = c.nifty_df
    /\ nifty_indicators' = c.nifty_indicators
    /\ ce_indicators' = c.ce_indicators
    /\ pe_indicators' = c.pe_indicators

----------------------------------------------------------------------------
\* StrategyV30.check_entry_signal on the last row of the DataFrame

\* variants of the evaluator: one without the entry window, and one that
\* does not compare the vortex gap with the previous row's
check_entry_signal_NoWindow(df, idx) ==
    IF idx < 2 THEN None
    ELSE
      LET row == df.rows[Len(df.rows)]
          prev_row == df.rows[Len(df.rows) - 1]
          is_bullish_vortex ==
              /\ row.vi_plus > row.vi_minus
              /\ (row.vi_plus - row.vi_minus) > (prev_row.vi_plus - prev_row.vi_minus)
          is_bearish_vortex ==
              /\ row.vi_minus > row.vi_plus
              /\ (row.vi_minus - row.vi_plus) > (prev_row.vi_minus - prev_row.vi_plus)
      IN  IF row.timestamp = NoTime THEN None
          ELSE IF is_bullish_vortex /\ row.close > row.ema THEN BUY_CE
          ELSE IF is_bearish_vortex /\ row.close < row.ema THEN BUY_PE
          ELSE None
check_entry_signal_IgnoresGap(df, idx) ==
    IF idx < 2 THEN None
    ELSE
      LET row == df.rows[Len(df.rows)]
          current_time == TimeOfDay(row.timestamp)
      IN  IF row.timestamp = NoTime THEN None
          ELSE IF ~(ENTRY_START <= current_time /\ current_time <= ENTRY_END) THEN None
          ELSE IF row.vi_plus > row.vi_minus /\ row.close > row.ema THEN BUY_CE
          ELSE IF row.vi_minus > row.vi_plus /\ row.close < row.ema THEN BUY_PE
          ELSE None

check_entry_signal(df, idx) ==
    IF idx < 2 THEN None
    ELSE
      LET row == df.rows[Len(df.rows)]
          prev_row == df.rows[Len(df.rows) - 1]
          current_time == TimeOfDay(row.timestamp)
          is_bullish_vortex ==
              /\ row.vi_plus > row.vi_minus
              /\ (row.vi_plus - row.vi_minus) > (prev_row.vi_plus - prev_row.vi_minus)
          is_bearish_vortex ==
              /\ ~(row.vi_plus > row.vi_minus)
              /\ row.vi_minus > row.vi_plus
              /\ (row.vi_minus - row.vi_plus) > (prev_row.vi_minus - prev_row.vi_plus)
      IN  IF row.timestamp = NoTime THEN None
          ELSE IF ~(ENTRY_START <= current_time /\ current_time <= ENTRY_END) THEN None
          ELSE IF is_bullish_vortex /\ row.close > row.ema THEN BUY_CE
          ELSE IF is_bearish_vortex /\ row.close < row.ema THEN BUY_PE
          ELSE None

----------------------------------------------------------------------------
\* LiveSignalScanner and LiveTraderMain (the candle-close orchestrator).
\* prices is the streamer's latest_prices dict: for CE and PE either Absent
\* (no entry yet) or the last option candle received, with its ltp.

\* prices.get(side, {}).get(key, default)
PriceGet(prices, side, key, default) ==
    IF prices[side] = Absent THEN default ELSE prices[side][key]

\* LiveSignalScanner.on_candle_closed
scanner_on_candle_closed(s, c, candle_type) ==
    IF candle_type # "NIFTY" THEN [c |-> c, signal |-> None]
    ELSE IF get_open_position_count(s) > 0 THEN [c |-> c, signal |-> None]
    ELSE LET r == calculate_nifty_indicators(c)
         IN  IF ~r.ret THEN [c |-> r.c, signal |-> None]
             ELSE IF r.c.nifty_df.len < 3 THEN [c |-> r.c, signal |-> None]
             ELSE [c |-> r.c,
                   signal |-> check_entry_signal(r.c.nifty_df, r.c.nifty_df.len - 1)]

\* LiveTraderMain.handle_signal
handle_signal(s, c, signal) ==
    LET signal_time == IndGet(c.nifty_indicators, "timestamp", NoTime)
    IN  on_signal_detected(s, signal, signal_time)

\* the candle dict LiveTraderMain.update_positions builds for one side
BuildCandleData(c, prices, option_type) ==
    [open |-> PriceGet(prices, option_type, "open", 0),
     close |-> PriceGet(prices, option_type, "close", 0),
     high |-> PriceGet(prices, option_type, "high", 0),
     low |-> PriceGet(prices, option_type, "low", 0),
     atr |-> IndGet(get_option_indicators(c, option_type), "atr", 0),
     strike_price |-> PriceGet(prices, option_type, "strike_price", NoStrike)]

\* the time LiveTraderMain.update_positions passes as current_candle_time
TraderCurrentTime(c) == IndGet(c.nifty_indicators, "timestamp", NoTime)

\* LiveTraderMain.update_positions
trader_update_positions(s, c, prices) ==
    LET ce_data == BuildCandleData(c, prices, "CE")
        pe_data == BuildCandleData(c, prices, "PE")
    IN  update_positions(s,
            UpdateArgs(ce_data.close, pe_data.close, ce_data.high, pe_data.high,
                       ce_data, pe_data, c.nifty_indicators, TraderCurrentTime(c)))

\* LiveTraderMain.on_candle_closed, the indicator refresh: NIFTY, CE, PE
RefreshIndicators(c) ==
    calculate_option_indicators(
        calculate_option_indicators(calculate_nifty_indicators(c).c, "CE").c,
        "PE").c

\* a variant of the scan condition without the cooldown after an exit
FlatIdleStable_NoCooldown(u) ==
    /\ get_open_position_count(u.s) = 0
    /\ u.s.pending_signal = None

\* LiveTraderMain.on_candle_closed: the condition of the scan, on what
\* update_positions left and returned
FlatIdleStable(u) ==
    /\ get_open_position_count(u.s) = 0
    /\ u.s.pending_signal = None
    /\ u.closed_orders = <<>>

\* LiveTraderMain.on_candle_closed after update_positions returned u: the
\* scan for a new signal, then its enqueue
ScanAndEnqueue(u, c3, candle_type) ==
    IF u.exc # None
    THEN [s |-> u.s, c |-> c3, new_order_id |-> u.new_order_id,
          closed_orders |-> u.closed_orders, scanned |-> FALSE,
          signal |-> None, exc |-> u.exc]
    ELSE
      LET scanned == FlatIdleStable(u)
          scan == IF scanned
                  THEN scanner_on_candle_closed(u.s, c3, candle_type)
                  ELSE [c |-> c3, signal |-> None]
          s2 == IF scan.signal # None
                THEN handle_signal(u.s, scan.c, scan.signal)
                ELSE u.s
      IN  [s |-> s2, c |-> scan.c, new_order_id |-> u.new_order_id,
           closed_orders |-> u.closed_orders, scanned |-> scanned,
           signal |-> scan.signal, exc |-> None]

\* LiveTraderMain.on_candle_closed, with the refreshed calculator state c3:
\* T+1 execution and exit evaluation, then the scan
CandleClosedWith(s, c3, prices, candle_type) ==
    ScanAndEnqueue(trader_update_positions(s, c3, prices), c3, candle_type)

\* LiveTraderMain.on_candle_closed: indicators, then T+1 execution and exit
\* evaluation, then the scan for a new signal, then its enqueue
on_candle_closed(s, c, prices, candle_type) ==
    IF candle_type # "NIFTY"
    THEN [s |-> s, c |-> c, new_order_id |-> NoOrder, closed_orders |-> <<>>,
          scanned |-> FALSE, signal |-> None, exc |-> None]
    ELSE CandleClosedWith(s, RefreshIndicators(c), prices, candle_type)

----------------------------------------------------------------------------
\* Inputs of the component-level specification

\* instants at which operations are called: the candles of 10:15, 10:20 and
\* 15:25 of one day
ApiTimes == {12 * TicksPerCandle, 13 * TicksPerCandle, 74 * TicksPerCandle}

\* the wall-clock instant of a forced close: the end of the day
ForceNow == SlotsPerDay * TicksPerCandle - 1

\* option candle dicts (open, close, high, low in hundredths; atr in thousandths)
OptionRising == [open |-> 12000, close |-> 12500, high |-> 13600, low |-> 11900,
                 atr |-> 4000, strike_price |-> 25000]
OptionFalling == [open |-> 12000, close |-> 10000, high |-> 12100, low |-> 9900,
                  atr |-> 20000, strike_price |-> 25000]
OptionNoOpen == [open |-> NaN, close |-> 10000, high |-> 12100, low |-> 9900,
                 atr |-> 20000, strike_price |-> 25000]
OptionNoAtr == [open |-> 12000, close |-> 12500, high |-> 13600, low |-> 11900,
                atr |-> NaN, strike_price |-> 25000]

\* the CE and PE dicts of one candle
OptionPairs == {<<OptionRising, OptionFalling>>, <<OptionNoOpen, OptionRising>>,
                <<OptionRising, OptionNoAtr>>, <<Absent, Absent>>}

\* the close and high a caller passes along with an option dict
CloseOf(d) == IF d = Absent THEN 0 ELSE d.close
HighOf(d) == IF d = Absent THEN 0 ELSE d.high

\* NIFTY snapshots: trend up, trend down, and not yet computed
NiftyUp(t) == [computed |-> TRUE, close |-> 11, ema |-> 10, macd_hist |-> 1,
               timestamp |-> t]
NiftyDown(t) == [computed |-> TRUE, close |-> 9, ema |-> 10, macd_hist |-> -1,
                 timestamp |-> t]
NiftyInputs(t) == {NiftyUp(t), NiftyDown(t), NoIndicators}

----------------------------------------------------------------------------
\* The record of the last operation: its name, the instant it was called
\* with, the order id it returned, and whether it found a signal due for
\* execution (pending, from an earlier instant) whose option data it could
\* not use (the dict absent, or its open or ATR NaN)

Unavailable(d) == d = Absent \/ d.open = NaN \/ d.atr = NaN

DueWithoutData(before, ce_data, pe_data, current_time) ==
    /\ before.pending_signal # None
    /\ before.pending_signal_time # NoTime
    /\ current_time # NoTime
    /\ current_time > before.pending_signal_time
    /\ Unavailable(IF before.pending_signal = BUY_CE THEN ce_data ELSE pe_data)

OpRecord(op, time, ret, no_data) ==
    [op |-> op, time |-> time, ret |-> ret, no_data |-> no_data]

----------------------------------------------------------------------------
\* Component-level specification: the operations of the order manager called
\* in any order with any of the inputs above

\* the state after LiveTraderMain.__init__
Init ==
    /\ pending_signal = None
    /\ pending_signal_time = NoTime
    /\ open_positions = <<>>
    /\ closed_positions = <<>>
    /\ next_order = 1
    /\ last_op = OpRecord("init", NoTime, NoOrder, FALSE)
    /\ nifty_buffer = EmptyBuffer
    /\ ce_buffer = EmptyBuffer
    /\ pe_buffer = EmptyBuffer
    /\ nifty_df = [len |-> 0, rows |-> <<>>]
    /\ nifty_indicators = NoIndicators
    /\ ce_indicators = NoOptionIndicators
    /\ pe_indicators = NoOptionIndicators
    /\ latest_prices = [CE |-> Absent, PE |-> Absent]
    /\ streamer_running = FALSE
    /\ replay_pc = "idle"
    /\ last_date = NoDate
    /\ trader_running = FALSE
    /\ main_pc = "start"
    /\ prices_ref = "empty"
    /\ stop_signal = "none"
    /\ force_closed = FALSE
    /\ logs_saved = FALSE
    /\ now = NoTime
    /\ last_poll = NoTime
    /\ current_candles = [NIFTY |-> Absent, CE |-> Absent, PE |-> Absent]
    /\ current_candle_start = NoTime
    /\ cb_pc = "idle"
    /\ ws_tick = Absent
    /\ cb_signal = None
    /\ cb_signal_time = NoTime
    /\ status = "STOPPED"
    /\ bot_threads = <<>>

env_vars == <<calc_vars, streamer_vars, trader_vars, live_vars>>

\* enqueue
OnSignalDetected ==
    \E signal \in Signals, signal_time \in ApiTimes :
        /\ Len(closed_positions) < MaxTrades
        /\ SetOM(on_signal_detected(OMState, signal, signal_time))
        /\ last_op' = OpRecord("on_signal_detected", signal_time, NoOrder, FALSE)
        /\ UNCHANGED env_vars

\* try_execute
ExecutePendingSignal ==
    \E pair \in OptionPairs, current_time \in ApiTimes :
        LET r == execute_pending_signal(OMState, pair[1], pair[2], current_time)
        IN  /\ SetOM(r.s)
            /\ last_op' = OpRecord("execute_pending_signal", current_time, r.ret,
                   DueWithoutData(OMState, pair[1], pair[2], current_time))
            /\ UNCHANGED env_vars

\* T+1 execution followed by exit evaluation
UpdatePositions ==
    \E pair \in OptionPairs, current_time \in ApiTimes :
      \E indicators \in NiftyInputs(current_time) :
        LET a == UpdateArgs(CloseOf(pair[1]), CloseOf(pair[2]),
                            HighOf(pair[1]), HighOf(pair[2]),
                            pair[1], pair[2], indicators, current_time)
            r == update_positions(OMState, a)
        IN  /\ SetOM(r.s)
            /\ last_op' = OpRecord("update_positions", current_time, r.new_order_id,
                   DueWithoutData(OMState, pair[1], pair[2], current_time))
            /\ UNCHANGED env_vars

ForceCloseAll ==
    \E ltp \in {0, 12500} :
        /\ SetOM(force_close_all_positions(OMState, ltp, ltp, ForceNow))
        /\ last_op' = OpRecord("force_close_all_positions", ForceNow, NoOrder, FALSE)
        /\ UNCHANGED env_vars

Next ==
    \/ OnSignalDetected
    \/ ExecutePendingSignal
    \/ UpdatePositions
    \/ ForceCloseAll

Spec == Init /\ [][Next]_vars

----------------------------------------------------------------------------
\* Properties of the order manager, checked under Spec

ExecutingOps == {"execute_pending_signal", "update_positions"}

\* C1: in every reachable state the number of positions with status OPEN is
\* 0 or 1 (and every position in the open collection has status OPEN).
C1_AtMostOneOpenPosition ==
    /\ Cardinality(DOMAIN open_positions) <= 1
    /\ \A id \in DOMAIN open_positions : open_positions[id].status = "OPEN"

\* C1 witness: one position is open and an enqueue has just been attempted
C1_Witness ==
    /\ Cardinality(DOMAIN open_positions) = 1
    /\ last_op.op = "on_signal_detected"

\* C2: at every operation boundary the queue holds no signal or one signal
\* with its time, and a pending signal and an open position never coexist.
C2_PendingXorOpen ==
    /\ pending_signal \in Signals \cup {None}
    /\ (pending_signal = None) <=> (pending_signal_time = NoTime)
    /\ pending_signal # None => DOMAIN open_positions = {}

\* C2 witness: a signal is pending and a second enqueue, with another time,
\* has just been attempted
C2_Witness ==
    /\ pending_signal # None
    /\ last_op.op = "on_signal_detected"
    /\ last_op.time # pending_signal_time

\* C3: a try_execute call whose time is not later than the pending signal's
\* time returns None, opens no position and leaves the signal pending; a call
\* that returns an order id had a time strictly later than the signal's time.
C3_NoExecutionBeforeNextCandle ==
    [][ /\ ( /\ last_op'.op = "execute_pending_signal"
             /\ pending_signal # None
             /\ last_op'.time <= pending_signal_time )
          => /\ last_op'.ret = NoOrder
             /\ UNCHANGED om_vars
        /\ ( /\ last_op'.op \in ExecutingOps
             /\ last_op'.ret # NoOrder )
          => /\ pending_signal # None
             /\ last_op'.time > pending_signal_time
             /\ last_op'.ret \in DOMAIN open_positions'
             /\ open_positions'[last_op'.ret].signal_time = pending_signal_time
             /\ open_positions'[last_op'.ret].entry_time > pending_signal_time
      ]_vars

\* C3 witness: try_execute was called at the signal's own time and the
\* signal is still pending
C3_Witness ==
    /\ last_op.op = "execute_pending_signal"
    /\ pending_signal # None
    /\ last_op.time = pending_signal_time
    /\ last_op.ret = NoOrder

\* C6: when update_positions is called with the entry time of an open
\* position, that position stays open and unchanged, whatever the option
\* price, the indicators and the time of day; a position opened by the call
\* itself is open when the call returns.
C6_NoExitOnEntryCandle ==
    [][ last_op'.op = "update_positions"
          => /\ \A id \in DOMAIN open_positions :
                   open_positions[id].entry_time = last_op'.time
                     => /\ id \in DOMAIN open_positions'
                        /\ open_positions'[id] = open_positions[id]
             /\ last_op'.ret # NoOrder
                  => /\ last_op'.ret \in DOMAIN open_positions'
                     /\ open_positions'[last_op'.ret].status = "OPEN"
      ]_vars

\* C6 witness: update_positions was called at 15:25, the end-of-day exit
\* time, with the entry time of a position that was already open, and the
\* position is open
C6_Witness ==
    /\ last_op.op = "update_positions"
    /\ last_op.ret = NoOrder
    /\ check_eod_exit(TimeOfDay(last_op.time))
    /\ \E id \in DOMAIN open_positions :
           open_positions[id].entry_time = last_op.time

\* C10: when try_execute runs at a time later than the pending signal's and
\* the option data of the signal's side is absent or has a NaN open or ATR,
\* it returns None, no position is open afterwards and the queue is empty,
\* so that no later call finds the signal.
C10_MissingDataDropsSignal ==
    (last_op.op \in ExecutingOps /\ last_op.no_data)
      => /\ last_op.ret = NoOrder
         /\ DOMAIN open_positions = {}
         /\ pending_signal = None
         /\ pending_signal_time = NoTime

\* C10 witness: try_execute found a due signal without usable option data
C10_Witness ==
    /\ last_op.op = "execute_pending_signal"
    /\ last_op.no_data
    /\ pending_signal = None

----------------------------------------------------------------------------
\* Phase 4 replay: the main thread of LiveTraderMain (start_trading_session,
\* shutdown), the SIGINT/SIGTERM handler of main, and the streamer's replay
\* thread (_run_mock_simulation), which calls on_candle_closed per candle.

\* the timestamp of the candle of a day and slot
CandleTime(day, slot) == (day * SlotsPerDay + slot) * TicksPerCandle

SlotOf(t) == CandleOf(t) % SlotsPerDay

\* datetime.now(): the replayed data is historical
WallClock == CandleTime(REPLAY_DAYS + 1, 0)

\* NIFTY rows of the CSV: the two trends
NiftyRowUp(t) == [timestamp |-> t, close |-> 11, ema |-> 10, macd_hist |-> 1,
                  vi_plus |-> 3, vi_minus |-> 1]
NiftyRowDown(t) == [timestamp |-> t, close |-> 9, ema |-> 10, macd_hist |-> -1,
                    vi_plus |-> 1, vi_minus |-> 3]
NiftyRows(t) == {NiftyRowUp(t), NiftyRowDown(t)}

\* option rows of the CSV at a timestamp: both sides present, or none
OptionFeed == {<<OptionRising, OptionFalling>>, <<Absent, Absent>>}

\* an option row as the candle the streamer buffers
OptionCandle(t, d) ==
    [timestamp |-> t, open |-> d.open, close |-> d.close, high |-> d.high,
     low |-> d.low, atr |-> d.atr, strike_price |-> d.strike_price]

\* an option row as the entry the streamer caches in latest_prices
PriceEntry(d) ==
    [ltp |-> d.close, strike_price |-> d.strike_price, open |-> d.open,
     close |-> d.close, high |-> d.high, low |-> d.low]

\* the warm-up rows of the CSV: n candles of the day before the replay window
RECURSIVE WarmupFeedFrom(_, _, _)
WarmupFeedFrom(c, k, n) ==
    IF k >= n \/ c.nifty_buffer.len < 0 THEN c
    ELSE WarmupFeedFrom(add_candle(c, "NIFTY", NiftyRowDown(CandleTime(0, k))),
                        k + 1, n)

WarmupFeed(c, n) == WarmupFeedFrom(c, 0, n)

WarmupSizes == {STABILITY_MIN_CANDLES - 1, STABILITY_MIN_CANDLES}

\* the timestamps the next row of the replay window can have: the next
\* 5-minute slot, or 09:15 of the next day when the rows of the day end here
NextTimes ==
    IF last_date = NoDate THEN {CandleTime(1, 0)}
    ELSE LET last == LastRow(nifty_buffer).timestamp
         IN  (IF SlotOf(last) < SlotsPerDay - 1
              THEN {last + TicksPerCandle} ELSE {})
             \cup
             (IF last_date < REPLAY_DAYS /\ SlotOf(last) >= EarliestDayEnd
              THEN {CandleTime(last_date + 1, 0)} ELSE {})

\* start_trading_session: data_streamer.start()
MainStartStreamer ==
    /\ UNCHANGED live_vars
    /\ main_pc = "start"
    /\ streamer_running' = TRUE
    /\ replay_pc' = "warmup"
    /\ main_pc' = "started"
    /\ UNCHANGED <<om_vars, last_op, calc_vars, latest_prices, last_date,
                   trader_running, prices_ref, stop_signal, force_closed,
                   logs_saved>>

\* start_trading_session: self.running = True; prices = {}
MainEnterLoop ==
    /\ UNCHANGED live_vars
    /\ main_pc = "started"
    /\ trader_running' = TRUE
    /\ prices_ref' = "empty"
    /\ main_pc' = "loop"
    /\ UNCHANGED <<om_vars, last_op, calc_vars, streamer_vars, stop_signal,
                   force_closed, logs_saved>>

\* start_trading_session: one iteration of the while loop
MainLoop ==
    /\ UNCHANGED live_vars
    /\ main_pc = "loop"
    /\ trader_running /\ streamer_running
    /\ prices_ref' = "latest"
    /\ UNCHANGED <<om_vars, last_op, calc_vars, streamer_vars, trader_running,
                   main_pc, stop_signal, force_closed, logs_saved>>

\* the prices dict shutdown receives
ShutdownLtp(option_type) ==
    IF prices_ref = "empty" THEN 0
    ELSE PriceGet(latest_prices, option_type, "ltp", 0)

\* start_trading_session: the loop ends and the finally block calls shutdown
\* (which returns at once unless self.running), then main returns
Shutdown ==
    /\ UNCHANGED live_vars
    /\ main_pc = "loop"
    /\ ~(trader_running /\ streamer_running)
    /\ main_pc' = "ended"
    /\ IF ~trader_running
       THEN UNCHANGED <<om_vars, last_op, trader_running, streamer_running,
                        force_closed, logs_saved>>
       ELSE /\ trader_running' = FALSE
            /\ streamer_running' = FALSE
            /\ SetOM(force_close_all_positions(OMState, ShutdownLtp("CE"),
                                               ShutdownLtp("PE"), WallClock))
            /\ last_op' = OpRecord("force_close_all_positions", WallClock,
                                   NoOrder, FALSE)
            /\ force_closed' = TRUE
            /\ logs_saved' = TRUE
    /\ UNCHANGED <<calc_vars, latest_prices, replay_pc, last_date, prices_ref,
                   stop_signal>>

\* main: signal_handler, run for SIGINT or SIGTERM
SignalHandler ==
    /\ UNCHANGED live_vars
    /\ main_pc \in {"start", "started", "loop"}
    /\ stop_signal = "none"
    /\ trader_running' = FALSE
    /\ streamer_running' = FALSE
    /\ stop_signal' = main_pc
    /\ UNCHANGED <<om_vars, last_op, calc_vars, latest_prices, replay_pc,
                   last_date, main_pc, prices_ref, force_closed, logs_saved>>

\* _run_mock_simulation: the warm-up loop and the check of the buffer
ReplayWarmup ==
    \E n \in WarmupSizes :
        /\ replay_pc = "warmup"
        /\ main_pc # "ended"
        /\ LET c == WarmupFeed(CalcState, n)
           IN  /\ SetCalc(c)
               /\ IF c.nifty_buffer.len < STABILITY_MIN_CANDLES
                  THEN streamer_running' = FALSE /\ replay_pc' = "done"
                  ELSE replay_pc' = "replay" /\ UNCHANGED streamer_running
        /\ UNCHANGED <<om_vars, last_op, latest_prices, last_date, trader_vars,
                       live_vars>>

\* the record of a candle-close event: the candle, the order id of the T+1
\* execution, the orders closed, whether the scanner was called, its signal
CandleRecord(timestamp, r) ==
    [op |-> "on_candle_closed", time |-> timestamp, ret |-> r.new_order_id,
     no_data |-> FALSE, closed_orders |-> r.closed_orders,
     scanned |-> r.scanned, signal |-> r.signal]

\* _run_mock_simulation: one iteration of the replay loop, with the
\* on_candle_closed callback it makes
ReplayCandle ==
    \E timestamp \in NextTimes :
      \E nifty_row \in NiftyRows(timestamp), option \in OptionFeed :
        /\ replay_pc = "replay"
        /\ main_pc # "ended"
        /\ streamer_running
        /\ nifty_buffer.len < STABILITY_MIN_CANDLES + MaxCandles
        /\ LET current_date == DateOf(timestamp)
               c0 == IF last_date # NoDate /\ current_date > last_date
                     THEN reset_option_buffers(CalcState) ELSE CalcState
               c1 == add_candle(c0, "NIFTY", nifty_row)
               c2 == IF option[1] # Absent
                     THEN add_candle(c1, "CE", OptionCandle(timestamp, option[1]))
                     ELSE c1
               c3 == IF option[2] # Absent
                     THEN add_candle(c2, "PE", OptionCandle(timestamp, option[2]))
                     ELSE c2
               prices == [CE |-> IF option[1] # Absent THEN PriceEntry(option[1])
                                 ELSE latest_prices.CE,
                          PE |-> IF option[2] # Absent THEN PriceEntry(option[2])
                                 ELSE latest_prices.PE]
               r == on_candle_closed(OMState, c3, prices, "NIFTY")
           IN  /\ last_date' = current_date
               /\ latest_prices' = prices
               /\ SetOM(r.s)
               /\ SetCalc(r.c)
               /\ last_op' = CandleRecord(timestamp, r)
               /\ IF r.exc # None
                  THEN streamer_running' = FALSE /\ replay_pc' = "done"
                  ELSE UNCHANGED <<streamer_running, replay_pc>>
        /\ UNCHANGED <<trader_vars, live_vars>>

\* _run_mock_simulation: the loop ends (no more rows, or running is False)
ReplayFinished ==
    /\ UNCHANGED live_vars
    /\ replay_pc = "replay"
    /\ main_pc # "ended"
    /\ streamer_running' = FALSE
    /\ replay_pc' = "done"
    /\ UNCHANGED <<om_vars, last_op, calc_vars, latest_prices, last_date,
                   trader_vars>>

NextReplay ==
    \/ MainStartStreamer
    \/ MainEnterLoop
    \/ MainLoop
    \/ Shutdown
    \/ SignalHandler
    \/ ReplayWarmup
    \/ ReplayCandle
    \/ ReplayFinished

SpecReplay == Init /\ [][NextReplay]_vars

----------------------------------------------------------------------------
\* Phase 3 live session: the websocket thread aggregates ticks into 5-minute
\* candles and, on the first tick of a new 5-minute block, closes the candles
\* and runs signal_handler_callback; the main thread polls once per clock
\* tick and calls update_positions with the wall clock.  The threads share
\* the order manager and the tracker without a lock, so the main thread can
\* run between any two steps of the callback.

\* the session is launched at 10:15, when 12 candles of the day have closed
LaunchTime == CandleTime(1, DAILY_MIN_CANDLES - 1)

WarmupCandles == STABILITY_MIN_CANDLES + DAILY_MIN_CANDLES - 1

\* the timestamp of the k-th candle of the warm-up data (the end of the
\* previous day, then the day's candles so far)
WarmupTime(k) ==
    IF k < STABILITY_MIN_CANDLES
    THEN CandleTime(0, SlotsPerDay - STABILITY_MIN_CANDLES + k)
    ELSE CandleTime(1, k - STABILITY_MIN_CANDLES)

\* the warm-up candles from the k-th to the last of n, fed to add_candle
\* (the length test, never true, makes the state be evaluated candle by
\* candle)
RECURSIVE WarmupFrom(_, _, _)
WarmupFrom(c, k, n) ==
    IF k >= n \/ c.nifty_buffer.len + c.ce_buffer.len + c.pe_buffer.len < 0 THEN c
    ELSE LET ts == WarmupTime(k)
             c1 == add_candle(c, "NIFTY", NiftyRowDown(ts))
             c2 == add_candle(c1, "CE", OptionCandle(ts, OptionRising))
         IN  WarmupFrom(add_candle(c2, "PE", OptionCandle(ts, OptionFalling)),
                        k + 1, n)

\* initialize_warmup: the historical and intraday candles of the three
\* instruments
initialize_warmup(c, n) == WarmupFrom(c, 0, n)

\* now.replace(minute=(now.minute // 5) * 5, second=0, microsecond=0)
AlignToGrid(t) == (t \div TicksPerCandle) * TicksPerCandle

\* _process_feed_data: the latest_prices entry of a tick
LivePriceEntry(ltp) == [ltp |-> ltp, open |-> ltp, high |-> ltp, low |-> ltp]

\* _update_candle_with_tick: a new forming candle, and a tick added to one
FormingCandle(start, ltp) ==
    [timestamp |-> start, open |-> ltp, high |-> ltp, low |-> ltp, close |-> ltp]
UpdateCandle(candle, ltp) ==
    [candle EXCEPT !.high = Max(@, ltp), !.low = Min(@, ltp), !.close = ltp]

\* a closed option candle as buffered, with the value ATR takes at its row
ClosedOptionCandle(candle) ==
    [timestamp |-> candle.timestamp, open |-> candle.open, close |-> candle.close,
     high |-> candle.high, low |-> candle.low, atr |-> OptionRising.atr,
     strike_price |-> NoStrike]

\* _close_candles: the forming candles pushed to the calculator; row is the
\* closed NIFTY candle with the values the indicators take at it
close_candles(c, candles, row) ==
    LET c1 == IF candles.NIFTY # Absent THEN add_candle(c, "NIFTY", row) ELSE c
        c2 == IF candles.CE # Absent
              THEN add_candle(c1, "CE", ClosedOptionCandle(candles.CE)) ELSE c1
    IN  IF candles.PE # Absent
        THEN add_candle(c2, "PE", ClosedOptionCandle(candles.PE)) ELSE c2

\* tick prices of the feed: the option premium of the CE side moves, the
\* index and the PE side tick at one price
TickPrices(instrument_name) ==
    IF instrument_name = "CE" THEN {10000, 12000} ELSE {12000}
Instruments == {"NIFTY", "CE", "PE"}

\* main: warm-up, the indicators on the warm-up data, start_websocket
LiveStart ==
    /\ main_pc = "start"
    /\ LET c0 == initialize_warmup(CalcState, WarmupCandles)
           c1 == calculate_nifty_indicators(c0).c
           c2 == calculate_option_indicators(c1, "CE").c
           c3 == calculate_option_indicators(c2, "PE").c
       IN  SetCalc(c3)
    /\ latest_prices' = [NIFTY |-> Absent, CE |-> Absent, PE |-> Absent]
    /\ now' = LaunchTime
    /\ main_pc' = "poll"
    /\ UNCHANGED <<om_vars, last_op, streamer_running, replay_pc, last_date,
                   trader_running, prices_ref, stop_signal, force_closed,
                   logs_saved, last_poll, bot_vars, current_candles,
                   current_candle_start, cb_pc, ws_tick, cb_signal,
                   cb_signal_time>>

\* the wall clock advances
ClockTick ==
    /\ main_pc = "poll"
    /\ cb_pc = "idle"
    /\ now < LaunchTime + MaxLiveTicks
    /\ now' = now + 1
    /\ UNCHANGED <<om_vars, last_op, calc_vars, streamer_vars, trader_vars,
                   last_poll, bot_vars, current_candles, current_candle_start, cb_pc,
                   ws_tick, cb_signal, cb_signal_time>>

\* websocket thread, _process_feed_data and _update_candle_with_tick of one
\* tick: within the forming candle the tick is aggregated; the first tick of
\* a new 5-minute block closes the candles and starts the callback, which
\* scans for a signal
WsTick ==
    \E instrument_name \in Instruments, row \in NiftyRows(current_candle_start) :
      \E ltp \in TickPrices(instrument_name) :
        /\ main_pc = "poll"
        /\ cb_pc = "idle"
        /\ latest_prices' = [latest_prices EXCEPT
                                ![instrument_name] = LivePriceEntry(ltp)]
        /\ LET start == IF current_candle_start = NoTime THEN AlignToGrid(now)
                        ELSE current_candle_start
           IN  IF now >= start + TicksPerCandle
               THEN LET c1 == close_candles(CalcState, current_candles, row)
                        scan == scanner_on_candle_closed(OMState, c1, "NIFTY")
                    IN  /\ SetCalc(scan.c)
                        /\ ws_tick' = [instrument_name |-> instrument_name,
                                       ltp |-> ltp]
                        /\ cb_signal' = scan.signal
                        /\ cb_signal_time' =
                               IF scan.signal = None THEN NoTime
                               ELSE IndGet(scan.c.nifty_indicators, "timestamp", now)
                        /\ cb_pc' = IF scan.signal = None THEN "roll"
                                    ELSE "check_open"
                        /\ UNCHANGED <<current_candles, current_candle_start>>
               ELSE /\ current_candle_start' = start
                    /\ current_candles' = [current_candles EXCEPT
                           ![instrument_name] =
                               IF @ = Absent THEN FormingCandle(start, ltp)
                               ELSE UpdateCandle(@, ltp)]
                    /\ UNCHANGED <<calc_vars, cb_pc, ws_tick, cb_signal,
                                   cb_signal_time>>
        /\ UNCHANGED <<om_vars, last_op, streamer_running, replay_pc, last_date,
                       trader_vars, now, last_poll, bot_vars>>

\* websocket thread, signal_handler_callback -> on_signal_detected, step by
\* step: the check of the open positions, the check of the queue, the write
\* of pending_signal, the write of pending_signal_time
CbCheckOpen ==
    /\ cb_pc = "check_open"
    /\ cb_pc' = IF PositionAlreadyOpen(OMState) THEN "roll" ELSE "check_pending"
    /\ UNCHANGED <<om_vars, last_op, calc_vars, streamer_vars, trader_vars,
                   now, last_poll, bot_vars, current_candles, current_candle_start,
                   ws_tick, cb_signal, cb_signal_time>>

CbCheckPending ==
    /\ cb_pc = "check_pending"
    /\ cb_pc' = IF PendingSignalExists(OMState) THEN "roll" ELSE "set_signal"
    /\ UNCHANGED <<om_vars, last_op, calc_vars, streamer_vars, trader_vars,
                   now, last_poll, bot_vars, current_candles, current_candle_start,
                   ws_tick, cb_signal, cb_signal_time>>

CbSetSignal ==
    /\ cb_pc = "set_signal"
    /\ pending_signal' = cb_signal
    /\ cb_pc' = "set_time"
    /\ UNCHANGED <<pending_signal_time, open_positions, closed_positions,
                   next_order, last_op, calc_vars, streamer_vars, trader_vars,
                   now, last_poll, bot_vars, current_candles, current_candle_start,
                   ws_tick, cb_signal, cb_signal_time>>

CbSetTime ==
    /\ cb_pc = "set_time"
    /\ pending_signal_time' = cb_signal_time
    /\ cb_pc' = "roll"
    /\ UNCHANGED <<pending_signal, open_positions, closed_positions,
                   next_order, last_op, calc_vars, streamer_vars, trader_vars,
                   now, last_poll, bot_vars, current_candles, current_candle_start,
                   ws_tick, cb_signal, cb_signal_time>>

\* websocket thread, _update_candle_with_tick after _close_candles returned:
\* the grid start and the forming candles are reset and the tick starts the
\* new candle of its instrument
WsRoll ==
    /\ cb_pc = "roll"
    /\ current_candle_start' = AlignToGrid(now)
    /\ current_candles' =
           [[NIFTY |-> Absent, CE |-> Absent, PE |-> Absent] EXCEPT
               ![ws_tick.instrument_name] =
                   FormingCandle(AlignToGrid(now), ws_tick.ltp)]
    /\ cb_pc' = "idle"
    /\ ws_tick' = Absent
    /\ cb_signal' = None
    /\ cb_signal_time' = NoTime
    /\ UNCHANGED <<om_vars, last_op, calc_vars, streamer_vars, trader_vars,
                   now, last_poll, bot_vars>>

\* main loop: the condition under which an iteration calls update_positions
PollHasData ==
    /\ PriceGet(latest_prices, "NIFTY", "ltp", 0) > 0
    /\ current_candles.CE # Absent
    /\ current_candles.PE # Absent

\* main loop: the forming candle of a side with the ATR injected
PollCandleData(option_type) ==
    LET candle == current_candles[option_type]
    IN  [open |-> candle.open, close |-> candle.close, high |-> candle.high,
         low |-> candle.low,
         atr |-> IndGet(get_option_indicators(CalcState, option_type), "atr", 0),
         strike_price |-> NoStrike]

\* main loop: one iteration, with current_time = datetime.now()
MainPoll ==
    /\ main_pc = "poll"
    /\ last_poll < now
    /\ last_poll' = now
    /\ IF PollHasData
       THEN LET ce_data == PollCandleData("CE")
                pe_data == PollCandleData("PE")
                a == UpdateArgs(PriceGet(latest_prices, "CE", "ltp", 0),
                                PriceGet(latest_prices, "PE", "ltp", 0),
                                PriceGet(latest_prices, "CE", "high", 0),
                                PriceGet(latest_prices, "PE", "high", 0),
                                ce_data, pe_data, nifty_indicators, now)
                r == update_positions(OMState, a)
            IN  /\ SetOM(r.s)
                /\ last_op' = OpRecord("update_positions", now, r.new_order_id,
                                       DueWithoutData(OMState, ce_data, pe_data, now))
                /\ main_pc' = IF r.exc # None THEN "crashed" ELSE main_pc
       ELSE UNCHANGED <<om_vars, last_op, main_pc>>
    /\ UNCHANGED <<calc_vars, streamer_vars, trader_running, prices_ref,
                   stop_signal, force_closed, logs_saved, now, bot_vars, current_candles,
                   current_candle_start, cb_pc, ws_tick, cb_signal,
                   cb_signal_time>>

NextLive ==
    \/ LiveStart
    \/ ClockTick
    \/ WsTick
    \/ CbCheckOpen
    \/ CbCheckPending
    \/ CbSetSignal
    \/ CbSetTime
    \/ WsRoll
    \/ MainPoll

SpecLive == Init /\ [][NextLive]_vars

----------------------------------------------------------------------------
\* Properties of the replay, checked under SpecReplay

\* the option candle buffer and indicator snapshot of a signal's side
SideBuffer(side) == IF side = BUY_CE THEN ce_buffer ELSE pe_buffer
SideIndicators(side) == IF side = BUY_CE THEN ce_indicators ELSE pe_indicators

\* C4: a signal detected while the orchestrator processes candle k is filled
\* or discarded while it processes candle k+1: when a candle has been
\* processed, a pending signal is one detected on this candle, and a position
\* opened on this candle has the previous candle as its signal candle.
C4_FilledOnTheNextCandle ==
    last_op.op = "on_candle_closed"
      => /\ pending_signal # None => pending_signal_time = last_op.time
         /\ last_op.ret # NoOrder
              => /\ last_op.ret \in DOMAIN open_positions
                 /\ open_positions[last_op.ret].entry_time = last_op.time
                 /\ open_positions[last_op.ret].signal_time =
                        nifty_buffer.rows[1].timestamp

\* C7: when SIGINT or SIGTERM arrives during the trading session, the
\* program ends only after force_close_all_positions and save_all have run,
\* and with no position left open.
C7_ShutdownClosesAndSaves ==
    (main_pc = "ended" /\ stop_signal = "loop")
      => /\ force_closed
         /\ logs_saved
         /\ DOMAIN open_positions = {}

\* C9: a position is opened only from the option data of the execution
\* candle: the side's candle of that timestamp was received, the entry price
\* is its open plus slippage, and the ATR was computed at that candle.
C9_NoTradeFromPlaceholders ==
    (last_op.op = "on_candle_closed" /\ last_op.ret # NoOrder
        /\ last_op.ret \in DOMAIN open_positions)
      => LET position == open_positions[last_op.ret]
             buffer == SideBuffer(position.side)
             indicators == SideIndicators(position.side)
         IN  /\ buffer.len > 0
             /\ LastRow(buffer).timestamp = position.entry_time
             /\ position.entry_price = LastRow(buffer).open + SLIPPAGE
             /\ indicators.computed
             /\ indicators.timestamp = position.entry_time

----------------------------------------------------------------------------
\* Properties of the live session, checked under SpecLive

\* C5: no position is closed by exit evaluation during the 5-minute candle
\* in which it was opened.
C5_NoExitInEntryCandle ==
    \A i \in 1..Len(closed_positions) :
        closed_positions[i].exit_reason # "Force EOD Close"
          => CandleOf(closed_positions[i].exit_time)
               # CandleOf(closed_positions[i].entry_time)

\* C8: the polling loop calls update_positions, which reads and writes the
\* pending signal and the positions, only when no candle-close event is in
\* progress on the websocket thread.
C8_NoConcurrentMutation ==
    [][ (last_poll' # last_poll /\ PollHasData) => cb_pc = "idle" ]_vars

----------------------------------------------------------------------------
\* IndicatorCalculator on its own: the historical load of one instrument,
\* single candles after it, the indicator calculation and the daily reset of
\* the option buffers.  The three buffers are independent, so a behaviour
\* exercises one instrument at a time.

\* the candles one more closed candle may be appended, beyond the thresholds
MaxCalcAdds == 2

\* the timestamp of the k-th candle of a history that holds n_prev candles of
\* the previous day (its last ones) followed by the candles of the day
HistoryTime(n_prev, k) ==
    IF k < n_prev THEN CandleTime(0, SlotsPerDay - n_prev + k)
    ELSE CandleTime(1, k - n_prev)

HistoryCandle(instrument_type, ts) ==
    IF instrument_type = "NIFTY" THEN NiftyRowDown(ts)
    ELSE OptionCandle(ts, OptionRising)

\* len(buffer) of an instrument in a calculator state
InstrumentLen(c, instrument_type) ==
    IF instrument_type = "NIFTY" THEN c.nifty_buffer.len
    ELSE IF instrument_type = "CE" THEN c.ce_buffer.len ELSE c.pe_buffer.len

\* _process_historical_candles_merged: the sorted candles, from the k-th to
\* the last of n, fed to add_candle (the length test, never true, makes the
\* state be evaluated candle by candle as the loop does)
RECURSIVE LoadHistory(_, _, _, _, _)
LoadHistory(c, instrument_type, n_prev, k, n) ==
    IF k >= n \/ InstrumentLen(c, instrument_type) < 0 THEN c
    ELSE LoadHistory(add_candle(c, instrument_type,
                                HistoryCandle(instrument_type, HistoryTime(n_prev, k))),
                     instrument_type, n_prev, k + 1, n)

\* sizes of the histories: candles of the previous day and of the day
HistorySizes(instrument_type) ==
    IF instrument_type = "NIFTY"
    THEN {STABILITY_MIN_CANDLES - DAILY_MIN_CANDLES, STABILITY_MIN_CANDLES - 1,
          STABILITY_MIN_CANDLES}
         \X {0, DAILY_MIN_CANDLES - 1, DAILY_MIN_CANDLES}
    ELSE {0} \X {ATR_PERIOD - 1, ATR_PERIOD, STABILITY_MIN_CANDLES - 1,
                 STABILITY_MIN_CANDLES}

InstrumentBuffer(instrument_type) ==
    IF instrument_type = "NIFTY" THEN nifty_buffer
    ELSE IF instrument_type = "CE" THEN ce_buffer ELSE pe_buffer

\* no candle of another instrument has been buffered
OnlyInstrument(instrument_type) ==
    \A other \in Instruments \ {instrument_type} : InstrumentBuffer(other).len = 0

\* the timestamps the next closed candle of an instrument can have
CalcNextTimes(instrument_type) ==
    LET buffer == InstrumentBuffer(instrument_type)
        last == LastRow(buffer).timestamp
    IN  IF buffer.len = 0 THEN {CandleTime(1, 0)}
        ELSE (IF SlotOf(last) < SlotsPerDay - 1 THEN {last + TicksPerCandle} ELSE {})
             \cup
             (IF /\ instrument_type = "NIFTY"
                 /\ DateOf(last) < REPLAY_DAYS
                 /\ (SlotOf(last) >= EarliestDayEnd \/ SlotOf(last) = SlotsPerDay - 1)
              THEN {CandleTime(DateOf(last) + 1, 0)} ELSE {})

\* the record of a calculator operation: for calculate_*_indicators the
\* instrument and the value returned
CalcRecord(op, instrument_type, success) ==
    [op |-> op, time |-> NoTime, ret |-> NoOrder, no_data |-> FALSE,
     instrument |-> instrument_type, success |-> success]

CalcLoadHistory ==
    \E instrument_type \in Instruments :
      \E sizes \in HistorySizes(instrument_type) :
        /\ \A any \in Instruments : InstrumentBuffer(any).len = 0
        /\ SetCalc(LoadHistory(CalcState, instrument_type, sizes[1], 0,
                               sizes[1] + sizes[2]))
        /\ last_op' = CalcRecord("initialize_warmup", instrument_type, FALSE)
        /\ UNCHANGED <<om_vars, streamer_vars, trader_vars, live_vars>>

CalcAddCandle ==
    \E instrument_type \in Instruments :
      \E timestamp \in CalcNextTimes(instrument_type) :
        /\ OnlyInstrument(instrument_type)
        /\ InstrumentBuffer(instrument_type).len
             < STABILITY_MIN_CANDLES + DAILY_MIN_CANDLES + MaxCalcAdds
        /\ SetCalc(add_candle(CalcState, instrument_type,
                              HistoryCandle(instrument_type, timestamp)))
        /\ last_op' = CalcRecord("add_candle", instrument_type, FALSE)
        /\ UNCHANGED <<om_vars, streamer_vars, trader_vars, live_vars>>

CalcIndicators ==
    \E instrument_type \in Instruments :
        /\ OnlyInstrument(instrument_type)
        /\ LET r == IF instrument_type = "NIFTY"
                    THEN calculate_nifty_indicators(CalcState)
                    ELSE calculate_option_indicators(CalcState, instrument_type)
           IN  /\ SetCalc(r.c)
               /\ last_op' = CalcRecord("calculate_indicators", instrument_type, r.ret)
        /\ UNCHANGED <<om_vars, streamer_vars, trader_vars, live_vars>>

CalcResetOptions ==
    /\ nifty_buffer.len = 0
    /\ (ce_buffer.len > 0 \/ pe_buffer.len > 0)
    /\ SetCalc(reset_option_buffers(CalcState))
    /\ last_op' = CalcRecord("reset_option_buffers", "CE", FALSE)
    /\ UNCHANGED <<om_vars, streamer_vars, trader_vars, live_vars>>

NextCalc ==
    \/ CalcLoadHistory
    \/ CalcAddCandle
    \/ CalcIndicators
    \/ CalcResetOptions

SpecCalc == Init /\ [][NextCalc]_vars

----------------------------------------------------------------------------
\* Properties of the indicator gates (SpecCalc)

\* the snapshot compute_indicators stores: nifty_df and the latest values
CalcSnapshot == <<nifty_df, nifty_indicators, ce_indicators, pe_indicators>>

\* this step is a call of calculate_*_indicators for the instrument
CalculatedFor(instrument_type) ==
    /\ last_op'.op = "calculate_indicators"
    /\ last_op'.instrument = instrument_type

\* the last operation was such a call and returned success
LastCalculated(instrument_type, success) ==
    /\ last_op.op = "calculate_indicators"
    /\ last_op.instrument = instrument_type
    /\ last_op.success = success

\* C12 as stated: for every instrument, a call with fewer than 50 candles in
\* the instrument's buffer returns false and leaves the snapshot unchanged
C12_Below50KeepsSnapshot ==
    [][\A instrument_type \in Instruments :
         CalculatedFor(instrument_type)
         /\ InstrumentBuffer(instrument_type).len < STABILITY_MIN_CANDLES
         => ~last_op'.success /\ CalcSnapshot' = CalcSnapshot]_vars

\* C12 amended: a call returns false and leaves the snapshot unchanged when
\* the NIFTY buffer holds fewer than 50 candles, and for CE and PE when the
\* option's buffer holds fewer than the ATR period of 14 candles
C12_BelowThresholdKeepsSnapshot ==
    [][/\ CalculatedFor("NIFTY") /\ nifty_buffer.len < STABILITY_MIN_CANDLES
          => ~last_op'.success /\ CalcSnapshot' = CalcSnapshot
       /\ \A option_type \in {"CE", "PE"} :
            CalculatedFor(option_type)
            /\ InstrumentBuffer(option_type).len < ATR_PERIOD
            => ~last_op'.success /\ CalcSnapshot' = CalcSnapshot]_vars

\* a call on 49 NIFTY candles, all of the latest day, has returned false and
\* there is no snapshot
C12_Witness ==
    /\ LastCalculated("NIFTY", FALSE)
    /\ nifty_buffer.len = STABILITY_MIN_CANDLES - 1
    /\ nifty_buffer.today >= DAILY_MIN_CANDLES
    /\ ~nifty_indicators.computed

\* C13: a NIFTY call returns false and leaves the snapshot unchanged when
\* fewer than 13 of the buffered candles are dated on the latest candle's
\* day, however many older candles the buffer holds
C13_DailyGateKeepsSnapshot ==
    [][CalculatedFor("NIFTY")
       /\ nifty_buffer.len > 0 /\ nifty_buffer.today < DAILY_MIN_CANDLES
       => ~last_op'.success /\ CalcSnapshot' = CalcSnapshot]_vars

\* a NIFTY call has returned false on 50 or more candles of which fewer than
\* 13 are of the latest day, and the snapshot is still the one of an earlier
\* candle
C13_Witness ==
    /\ LastCalculated("NIFTY", FALSE)
    /\ nifty_buffer.len >= STABILITY_MIN_CANDLES
    /\ nifty_buffer.today < DAILY_MIN_CANDLES
    /\ nifty_indicators.computed
    /\ nifty_indicators.timestamp # LastRow(nifty_buffer).timestamp

\* C14 as stated: a NIFTY call returns false with exactly 49 candles and
\* true with 50 candles
C14_FiftyCandlesSucceed ==
    [][CalculatedFor("NIFTY")
       => /\ nifty_buffer.len = STABILITY_MIN_CANDLES - 1 => ~last_op'.success
          /\ nifty_buffer.len = STABILITY_MIN_CANDLES => last_op'.success]_vars

\* C14 amended: a NIFTY call returns false with exactly 49 candles, and true
\* (storing the snapshot of the latest candle) with 50 candles of which at
\* least 13 are dated on the latest candle's day
C14_FiftyCandlesOfTheDaySucceed ==
    [][CalculatedFor("NIFTY")
       => /\ nifty_buffer.len = STABILITY_MIN_CANDLES - 1 => ~last_op'.success
          /\ nifty_buffer.len = STABILITY_MIN_CANDLES
             /\ nifty_buffer.today >= DAILY_MIN_CANDLES
             => /\ last_op'.success
                /\ nifty_indicators'.computed
                /\ nifty_indicators'.timestamp = LastRow(nifty_buffer).timestamp
                /\ nifty_df'.len = nifty_buffer.len]_vars

\* a NIFTY call on exactly 50 candles has returned true
C14_Witness ==
    /\ LastCalculated("NIFTY", TRUE)
    /\ nifty_buffer.len = STABILITY_MIN_CANDLES
    /\ nifty_indicators.timestamp = LastRow(nifty_buffer).timestamp

----------------------------------------------------------------------------
\* Properties of the candle-close event (SpecReplay)

\* every position the tracker holds or has held
AllPositions ==
    {open_positions[i] : i \in DOMAIN open_positions}
    \cup {closed_positions[i] : i \in DOMAIN closed_positions}

\* this step is a candle-close event that has enqueued a signal
EnqueuedOnThisCandle ==
    /\ last_op'.op = "on_candle_closed"
    /\ pending_signal' # None
    /\ pending_signal_time' # pending_signal_time

\* C11: a signal is enqueued only on a candle whose NIFTY indicator
\* computation succeeded (50 candles buffered, 13 of them of the day, the
\* snapshot is the one of this candle), and every position originates from a
\* signal of a candle at which 13 candles of its day were buffered
C11_NoSignalWithoutIndicators ==
    [][/\ EnqueuedOnThisCandle
          => /\ nifty_buffer'.len >= STABILITY_MIN_CANDLES
             /\ nifty_buffer'.today >= DAILY_MIN_CANDLES
             /\ nifty_indicators'.computed
             /\ nifty_indicators'.timestamp = last_op'.time
             /\ pending_signal_time' = last_op'.time
       /\ \A position \in AllPositions' :
            SlotOf(position.signal_time) >= DAILY_MIN_CANDLES - 1]_vars

\* a candle closed while the trader was flat and idle, its rows give an entry
\* signal, but fewer than 13 candles of the day are buffered: nothing is
\* enqueued
C11_Witness ==
    /\ last_op.op = "on_candle_closed"
    /\ nifty_buffer.len >= STABILITY_MIN_CANDLES
    /\ nifty_buffer.today < DAILY_MIN_CANDLES
    /\ LastRow(nifty_buffer).timestamp = last_op.time
    /\ check_entry_signal([len |-> nifty_buffer.len, rows |-> nifty_buffer.rows],
                          nifty_buffer.len - 1) # None
    /\ DOMAIN open_positions = {}
    /\ closed_positions = <<>>
    /\ pending_signal = None

\* the timestamps at which positions were closed
ExitTimes == {closed_positions[i].exit_time : i \in DOMAIN closed_positions}

\* C15: on a candle the scanner is called, and a signal enqueued, only if
\* after the candle's T+1 execution and exit evaluation no position is open,
\* no signal is pending and no position was closed on that candle; no pending
\* signal and no position has a signal_time at which a trade exited
C15_ScanOnlyWhenFlatIdleStable ==
    [][/\ last_op'.op = "on_candle_closed"
          /\ (last_op'.scanned \/ EnqueuedOnThisCandle)
          => /\ last_op'.scanned
             /\ DOMAIN open_positions' = {}
             /\ last_op'.ret = NoOrder
             /\ last_op'.closed_orders = <<>>
             /\ closed_positions' = closed_positions
             /\ pending_signal' # None => pending_signal_time' = last_op'.time
       /\ pending_signal_time' \notin ExitTimes'
       /\ \A position \in AllPositions' : position.signal_time \notin ExitTimes']_vars

\* a position was closed on a candle whose indicators were computed and whose
\* rows give an entry signal inside the entry window: the scanner was not
\* called and nothing is enqueued
C15_Witness ==
    /\ last_op.op = "on_candle_closed"
    /\ last_op.closed_orders # <<>>
    /\ ~last_op.scanned
    /\ nifty_indicators.timestamp = last_op.time
    /\ check_entry_signal(nifty_df, nifty_df.len - 1) # None
    /\ DOMAIN open_positions = {}
    /\ pending_signal = None
    /\ last_op.time \in ExitTimes

----------------------------------------------------------------------------
\* The replay of the TB DHAN Phase 4 variant: its streamer thread and the
\* on_candle_closed callback of its trader, statement by statement.  The
\* trader calls PaperOrderManager.create_paper_order, which the order manager
\* of the variant does not define, and calls update_positions without the
\* ce_data and pe_data arguments it requires; both calls raise, and the
\* streamer's except clause ends the replay.

\* calculate_option_indicators: the candles an option needs
DHAN_OPTION_MIN_CANDLES == 10

\* IndicatorCalculator.calculate_nifty_indicators of the variant: the period
\* gate only
dhan_calculate_nifty_indicators(c) ==
    IF PeriodGateBlocks(c.nifty_buffer) THEN [c |-> c, ret |-> FALSE]
    ELSE LET latest == LastRow(c.nifty_buffer)
         IN  [c |-> [c EXCEPT
                       !.nifty_df = [len |-> c.nifty_buffer.len,
                                     rows |-> c.nifty_buffer.rows],
                       !.nifty_indicators =
                           [computed |-> TRUE, close |-> latest.close,
                            ema |-> latest.ema, macd_hist |-> latest.macd_hist,
                            timestamp |-> latest.timestamp]],
              ret |-> TRUE]

\* IndicatorCalculator.calculate_option_indicators of the variant
dhan_calculate_option_indicators(c, option_type) ==
    LET buffer == IF option_type = "CE" THEN c.ce_buffer ELSE c.pe_buffer
    IN  IF buffer.len < DHAN_OPTION_MIN_CANDLES THEN [c |-> c, ret |-> FALSE]
        ELSE LET latest == LastRow(buffer)
                 indicators == [computed |-> TRUE, atr |-> latest.atr,
                                timestamp |-> latest.timestamp]
             IN  [c |-> IF option_type = "CE"
                        THEN [c EXCEPT !.ce_indicators = indicators]
                        ELSE [c EXCEPT !.pe_indicators = indicators],
                  ret |-> TRUE]

\* LiveSignalScanner.on_candle_closed of the variant: no flatness check
dhan_scanner_on_candle_closed(c, candle_type) ==
    IF candle_type # "NIFTY" THEN [c |-> c, signal |-> None]
    ELSE LET r == dhan_calculate_nifty_indicators(c)
         IN  IF ~r.ret THEN [c |-> r.c, signal |-> None]
             ELSE IF r.c.nifty_df.len < 3 THEN [c |-> r.c, signal |-> None]
             ELSE [c |-> r.c,
                   signal |-> check_entry_signal(r.c.nifty_df, r.c.nifty_df.len - 1)]

\* LiveTraderMain.handle_signal of the variant: whether it reaches the call
\* of create_paper_order
DhanCreatesOrder(c, prices, signal) ==
    LET option_side == IF signal = BUY_CE THEN "CE" ELSE "PE"
        option_price == PriceGet(prices, option_side, "ltp", 0)
        option_atr == IndGet(get_option_indicators(c, option_side), "atr", 0)
    IN  option_price > 0 /\ option_atr > 0

\* sizes of the warm-up data: NIFTY candles, and candles of each option
DhanWarmupSizes ==
    {Max(EMA_PERIOD, VI_PERIOD) - 2, Max(EMA_PERIOD, VI_PERIOD) - 1,
     STABILITY_MIN_CANDLES}
    \X {0, DHAN_OPTION_MIN_CANDLES - 1, DHAN_OPTION_MIN_CANDLES}

\* the timestamp of the first row of the replay window in the CSV
DhanFirstTimes == {CandleTime(1, 0), CandleTime(1, DAILY_MIN_CANDLES - 1)}

\* the record of a candle-close event: the candle and the steps run so far
DhanRecord(timestamp, steps) ==
    [op |-> "on_candle_closed", time |-> timestamp, ret |-> NoOrder,
     no_data |-> FALSE, steps |-> steps]

\* the event goes on with one more step run
DhanStep(step, next_pc) ==
    /\ last_op' = DhanRecord(last_op.time, Append(last_op.steps, step))
    /\ cb_pc' = next_pc

\* an exception leaves the callback and is caught in _run_mock_simulation
DhanRaise(step) ==
    /\ last_op' = DhanRecord(last_op.time, Append(last_op.steps, step))
    /\ cb_pc' = "idle"
    /\ streamer_running' = FALSE
    /\ replay_pc' = "done"

dhan_unchanged == <<trader_vars, now, last_poll, current_candles,
                    current_candle_start, ws_tick, cb_signal_time, bot_vars>>

\* LiveDataStreamer.start
DhanStart ==
    /\ replay_pc = "idle"
    /\ streamer_running' = TRUE
    /\ replay_pc' = "warmup"
    /\ UNCHANGED <<om_vars, last_op, calc_vars, latest_prices, last_date,
                   cb_pc, cb_signal, dhan_unchanged>>

\* _run_mock_simulation: the warm-up loops
DhanWarmup ==
    \E sizes \in DhanWarmupSizes :
        /\ replay_pc = "warmup"
        /\ LET c0 == WarmupFeed(CalcState, sizes[1])
               c1 == LoadHistory(c0, "CE", sizes[2], 0, sizes[2])
           IN  SetCalc(LoadHistory(c1, "PE", sizes[2], 0, sizes[2]))
        /\ replay_pc' = "replay"
        /\ UNCHANGED <<om_vars, last_op, latest_prices, streamer_running,
                       last_date, cb_pc, cb_signal, dhan_unchanged>>

\* _run_mock_simulation: one iteration of the replay loop, up to the call of
\* the callback
DhanCandle ==
    \E timestamp \in DhanFirstTimes :
      \E nifty_row \in NiftyRows(timestamp), option \in OptionFeed :
        /\ replay_pc = "replay"
        /\ cb_pc = "idle"
        /\ streamer_running
        /\ LET c1 == add_candle(CalcState, "NIFTY", nifty_row)
               c2 == IF option[1] # Absent
                     THEN add_candle(c1, "CE", OptionCandle(timestamp, option[1]))
                     ELSE c1
           IN  SetCalc(IF option[2] # Absent
                       THEN add_candle(c2, "PE", OptionCandle(timestamp, option[2]))
                       ELSE c2)
        /\ latest_prices' =
               [CE |-> IF option[1] # Absent THEN PriceEntry(option[1])
                       ELSE latest_prices.CE,
                PE |-> IF option[2] # Absent THEN PriceEntry(option[2])
                       ELSE latest_prices.PE]
        /\ last_op' = DhanRecord(timestamp, <<>>)
        /\ cb_pc' = "calculate_indicators"
        /\ UNCHANGED <<om_vars, streamer_running, replay_pc, last_date,
                       cb_signal, dhan_unchanged>>

\* on_candle_closed: the indicators of the three instruments
DhanIndicators ==
    /\ cb_pc = "calculate_indicators"
    /\ SetCalc(dhan_calculate_option_indicators(
                   dhan_calculate_option_indicators(
                       dhan_calculate_nifty_indicators(CalcState).c, "CE").c,
                   "PE").c)
    /\ DhanStep("calculate_indicators", "scan")
    /\ UNCHANGED <<om_vars, streamer_vars, cb_signal, dhan_unchanged>>

\* on_candle_closed: signal = self.signal_scanner.on_candle_closed(...)
DhanScan ==
    /\ cb_pc = "scan"
    /\ LET scan == dhan_scanner_on_candle_closed(CalcState, "NIFTY")
       IN  /\ SetCalc(scan.c)
           /\ cb_signal' = scan.signal
           /\ DhanStep("scan", IF scan.signal # None THEN "handle_signal"
                               ELSE "update_positions")
    /\ UNCHANGED <<om_vars, streamer_vars, dhan_unchanged>>

\* on_candle_closed: self.handle_signal(signal), which raises AttributeError
\* at create_paper_order or logs that price or ATR is missing
DhanHandleSignal ==
    /\ cb_pc = "handle_signal"
    /\ IF DhanCreatesOrder(CalcState, latest_prices, cb_signal)
       THEN /\ DhanRaise("handle_signal")
            /\ UNCHANGED <<latest_prices, last_date>>
       ELSE /\ DhanStep("handle_signal", "update_positions")
            /\ UNCHANGED streamer_vars
    /\ UNCHANGED <<om_vars, calc_vars, cb_signal, dhan_unchanged>>

\* on_candle_closed: self.update_positions(), whose call of
\* PaperOrderManager.update_positions raises TypeError before the T+1
\* execution and the exit evaluation
DhanUpdatePositions ==
    /\ cb_pc = "update_positions"
    /\ DhanRaise("update_positions")
    /\ UNCHANGED <<om_vars, calc_vars, latest_prices, last_date, cb_signal,
                   dhan_unchanged>>

NextDhan ==
    \/ DhanStart
    \/ DhanWarmup
    \/ DhanCandle
    \/ DhanIndicators
    \/ DhanScan
    \/ DhanHandleSignal
    \/ DhanUpdatePositions

SpecDhan == Init /\ [][NextDhan]_vars

\* a step has run in the candle-close event before the i-th step
RanBefore(steps, i, step) == \E j \in 1..(i - 1) : steps[j] = step

\* C16: within one candle-close event the steps run in the order indicators,
\* T+1 execution and exit evaluation (update_positions), signal scan,
\* enqueue; the scan never runs before the candle's T+1 execution and exit
\* evaluation
C16_FixedStepOrder ==
    last_op.op = "on_candle_closed"
    => \A i \in DOMAIN last_op.steps :
         /\ last_op.steps[i] = "update_positions"
            => RanBefore(last_op.steps, i, "calculate_indicators")
         /\ last_op.steps[i] = "scan"
            => RanBefore(last_op.steps, i, "update_positions")
         /\ last_op.steps[i] = "handle_signal"
            => RanBefore(last_op.steps, i, "scan")

----------------------------------------------------------------------------
\* The exit side of the order manager: positions are opened by the queue and
\* the T+1 execution, then update_positions is called candle after candle
\* with option candles that fall, rise through TP1 and fall back, rise and
\* stay above the locked stop, or stay calm; check_tp1_hit is also called
\* on its own.

OptionSoaring == [open |-> 14000, close |-> 14000, high |-> 14100, low |-> 13900,
                  atr |-> 4000, strike_price |-> 25000]
OptionCalm == [open |-> 12000, close |-> 12100, high |-> 12200, low |-> 11900,
               atr |-> 4000, strike_price |-> 25000]
ExitCandles == {OptionRising, OptionFalling, OptionSoaring, OptionCalm}

\* the candles of 10:15, 10:20, 10:25 and 15:25
ExitCallTimes == ApiTimes \cup {14 * TicksPerCandle}

UpdateRecord(current_time, ret, a) ==
    [op |-> "update_positions", time |-> current_time, ret |-> ret,
     no_data |-> FALSE, args |-> a]

Tp1Record(order_id, current_high, ret) ==
    [op |-> "check_tp1_hit", time |-> NoTime, ret |-> NoOrder, no_data |-> FALSE,
     order_id |-> order_id, current_high |-> current_high, hit |-> ret]

\* update_positions with the candle of both options, the snapshot and the time
ExitUpdatePositions ==
    \E candle \in ExitCandles, current_time \in ExitCallTimes :
      \E indicators \in NiftyInputs(current_time) :
        LET a == UpdateArgs(candle.close, candle.close, candle.high, candle.high,
                            candle, candle, indicators, current_time)
            r == update_positions(OMState, a)
        IN  /\ SetOM(r.s)
            /\ last_op' = UpdateRecord(current_time, r.new_order_id, a)
            /\ UNCHANGED env_vars

\* PositionTracker.check_tp1_hit, for an open position or an unknown order id
CheckTp1Hit ==
    \E order_id \in DOMAIN open_positions \cup {next_order} :
      \E candle \in ExitCandles :
        LET r == check_tp1_hit(OMState, order_id, candle.high)
        IN  /\ SetOM(r.s)
            /\ last_op' = Tp1Record(order_id, candle.high, r.ret)
            /\ UNCHANGED env_vars

NextExits ==
    \/ OnSignalDetected
    \/ ExecutePendingSignal
    \/ ExitUpdatePositions
    \/ CheckTp1Hit

SpecExits == Init /\ [][NextExits]_vars

\* what update_positions was called with for the side of a position
ArgPrice(position) ==
    IF position.side = BUY_CE THEN last_op'.args.ce_price ELSE last_op'.args.pe_price
ArgHigh(position) ==
    IF position.side = BUY_CE THEN last_op'.args.ce_high ELSE last_op'.args.pe_high

\* this step is a call of update_positions on a candle other than the entry
\* candle of the open position id
EvaluatedOn(id) ==
    /\ last_op'.op = "update_positions"
    /\ id \in DOMAIN open_positions
    /\ open_positions[id].entry_time # last_op'.time

\* TP1 is hit for the first time on this candle
FirstTp1(position) == ~position.tp1_hit /\ ArgHigh(position) >= position.tp1

\* the stop and the TP1 flag the exit rules of this candle work with
StopNow(position) ==
    IF FirstTp1(position) THEN position.entry_price + TP1_LOCK_POINTS
    ELSE position.sl
Tp1Now(position) == position.tp1_hit \/ FirstTp1(position)

\* the three exit rules on the arguments of this call
StopMatches(position) == ArgPrice(position) <= StopNow(position)
ReversalMatches(position) ==
    LET n == last_op'.args.nifty_indicators
        nifty_close == IF n.computed THEN n.close ELSE 0
        ema == IF n.computed THEN n.ema ELSE 0
        macd_hist == IF n.computed THEN n.macd_hist ELSE 0
    IN  /\ Tp1Now(position)
        /\ IF position.side = BUY_CE THEN nifty_close < ema \/ macd_hist < 0
           ELSE nifty_close > ema \/ macd_hist > 0
EodMatches == TimeOfDay(last_op'.time) >= EOD_EXIT_TIME

\* the records with which the order has been closed by the end of this step
ClosedRecordsOf(id) ==
    {i \in DOMAIN closed_positions' : closed_positions'[i].order_id = id}

\* this step has closed the position once, with this reason and price
ClosedAs(id, reason, price) ==
    /\ id \notin DOMAIN open_positions'
    /\ Cardinality(ClosedRecordsOf(id)) = 1
    /\ \A i \in ClosedRecordsOf(id) :
         /\ closed_positions'[i].exit_reason = reason
         /\ closed_positions'[i].exit_price = price
         /\ closed_positions'[i].exit_time = last_op'.time

\* C17: on a candle other than the entry candle the first matching rule
\* closes the position, once: stop-loss (close <= sl, "SL Hit", at sl), else
\* trend reversal (only with tp1_hit, at the close), else end of day (at the
\* close); with no rule matching the position stays open
C17_ExitPriority ==
    [][\A id \in DOMAIN open_positions :
         EvaluatedOn(id)
         => LET position == open_positions[id]
            IN  /\ StopMatches(position)
                   => ClosedAs(id, "SL Hit", StopNow(position))
                /\ ~StopMatches(position) /\ ReversalMatches(position)
                   => ClosedAs(id, "MACD/EMA Exit", ArgPrice(position))
                /\ ~StopMatches(position) /\ ~ReversalMatches(position)
                   /\ EodMatches
                   => ClosedAs(id, "EOD Exit", ArgPrice(position))
                /\ ~StopMatches(position) /\ ~ReversalMatches(position)
                   /\ ~EodMatches
                   => id \in DOMAIN open_positions' /\ ClosedRecordsOf(id) = {}]_vars

\* a position with TP1 hit was closed at 15:25 by a call in which the close
\* was at or below the stop and the trend had reversed: the reason is SL Hit
C17_Witness ==
    /\ last_op.op = "update_positions"
    /\ check_eod_exit(TimeOfDay(last_op.time))
    /\ DOMAIN open_positions = {}
    /\ closed_positions # <<>>
    /\ LET closed == closed_positions[Len(closed_positions)]
           n == last_op.args.nifty_indicators
       IN  /\ closed.exit_time = last_op.time
           /\ closed.entry_time # last_op.time
           /\ closed.exit_reason = "SL Hit"
           /\ closed.exit_price = closed.sl
           /\ closed.tp1_hit
           /\ closed.side = BUY_CE
           /\ last_op.args.ce_price <= closed.sl
           /\ n.computed /\ n.close < n.ema

\* C18: once tp1_hit is true the stop of a position never decreases, while
\* the position is open and in the record it is closed with
C18_StopNeverDecreases ==
    [][\A id \in DOMAIN open_positions :
         /\ id \in DOMAIN open_positions' /\ open_positions'[id].tp1_hit
            => open_positions'[id].sl >= open_positions[id].sl
         /\ \A i \in ClosedRecordsOf(id) :
              closed_positions'[i].tp1_hit
              => closed_positions'[i].sl >= open_positions[id].sl]_vars

\* a position whose TP1 was hit on an earlier candle (the high of this call
\* is below tp1) still had its stop at the locked level, above the stop it
\* was opened with, and was closed there
C18_Witness ==
    /\ last_op.op = "update_positions"
    /\ closed_positions # <<>>
    /\ LET closed == closed_positions[Len(closed_positions)]
       IN  /\ closed.exit_time = last_op.time
           /\ closed.side = BUY_CE
           /\ last_op.args.ce_high < closed.tp1
           /\ closed.tp1_hit
           /\ closed.sl = closed.entry_price + TP1_LOCK_POINTS
           /\ closed.sl > closed.initial_sl
           /\ closed.exit_reason = "SL Hit"
           /\ closed.exit_price = closed.sl

\* C19: on the candle where TP1 is first hit the stop is moved to
\* entry_price + 13 before the exits are checked: a close at or below that
\* level closes the position with SL Hit at that level, a reversal of the
\* trend closes it although tp1_hit was false when the candle began, and a
\* position left open has tp1_hit and the locked stop
C19_LockBeforeExitCheck ==
    [][\A id \in DOMAIN open_positions :
         EvaluatedOn(id) /\ FirstTp1(open_positions[id])
         => LET position == open_positions[id]
                locked == position.entry_price + TP1_LOCK_POINTS
            IN  /\ id \in DOMAIN open_positions'
                   => /\ open_positions'[id].tp1_hit
                      /\ open_positions'[id].sl = locked
                /\ \A i \in ClosedRecordsOf(id) :
                     closed_positions'[i].tp1_hit /\ closed_positions'[i].sl = locked
                /\ ArgPrice(position) <= locked
                   => ClosedAs(id, "SL Hit", locked)
                /\ ArgPrice(position) > locked /\ ReversalMatches(position)
                   => ClosedAs(id, "MACD/EMA Exit", ArgPrice(position))]_vars

\* a position was closed with SL Hit at entry_price + 13 by a call whose
\* close was above the stop the position had been opened with
C19_Witness ==
    /\ last_op.op = "update_positions"
    /\ closed_positions # <<>>
    /\ LET closed == closed_positions[Len(closed_positions)]
       IN  /\ closed.exit_time = last_op.time
           /\ closed.exit_reason = "SL Hit"
           /\ closed.exit_price = closed.entry_price + TP1_LOCK_POINTS
           /\ closed.side = BUY_CE
           /\ last_op.args.ce_price > closed.initial_sl
           /\ last_op.args.ce_price <= closed.exit_price

\* C20: check_tp1_hit returns true exactly when tp1_hit is false and the high
\* is at or above tp1, and then sets tp1_hit; with tp1_hit set it returns
\* false whatever the high, and tp1_hit of a position never reverts
C20_Tp1EdgeTriggered ==
    [][/\ last_op'.op = "check_tp1_hit"
          => IF last_op'.order_id \in DOMAIN open_positions
             THEN LET position == open_positions[last_op'.order_id]
                  IN  /\ last_op'.hit <=> (~position.tp1_hit
                                           /\ last_op'.current_high >= position.tp1)
                      /\ position.tp1_hit => ~last_op'.hit
                      /\ last_op'.hit
                         => open_positions'[last_op'.order_id].tp1_hit
             ELSE ~last_op'.hit
       /\ \A id \in DOMAIN open_positions :
            open_positions[id].tp1_hit
            => /\ id \in DOMAIN open_positions' => open_positions'[id].tp1_hit
               /\ \A i \in ClosedRecordsOf(id) : closed_positions'[i].tp1_hit]_vars

\* check_tp1_hit was called with a high at or above tp1 for a position whose
\* TP1 had been hit before, and returned false
C20_Witness ==
    /\ last_op.op = "check_tp1_hit"
    /\ ~last_op.hit
    /\ last_op.order_id \in DOMAIN open_positions
    /\ open_positions[last_op.order_id].tp1_hit
    /\ last_op.current_high >= open_positions[last_op.order_id].tp1

\* C21: after update_positions has run for a candle at or after 15:25, no
\* position opened on an earlier candle is open: the call has closed it, once,
\* with SL Hit at the stop, MACD/EMA Exit at the close or, failing those, EOD
\* Exit at the close of its side
C21_ClosedAtEndOfDay ==
    [][\A id \in DOMAIN open_positions :
         /\ last_op'.op = "update_positions"
         /\ TimeOfDay(last_op'.time) >= EOD_EXIT_TIME
         /\ open_positions[id].entry_time < last_op'.time
         => LET position == open_positions[id]
            IN  \/ ClosedAs(id, "SL Hit", StopNow(position))
                \/ ClosedAs(id, "MACD/EMA Exit", ArgPrice(position))
                \/ /\ ~StopMatches(position) /\ ~ReversalMatches(position)
                   /\ ClosedAs(id, "EOD Exit", ArgPrice(position))]_vars

\* a position opened at 10:20 was closed by the call for the 15:25 candle
\* with EOD Exit at the option's close, above its stop and with the trend
\* intact
C21_Witness ==
    /\ last_op.op = "update_positions"
    /\ TimeOfDay(last_op.time) = EOD_EXIT_TIME
    /\ DOMAIN open_positions = {}
    /\ closed_positions # <<>>
    /\ LET closed == closed_positions[Len(closed_positions)]
       IN  /\ closed.entry_time < last_op.time
           /\ closed.exit_time = last_op.time
           /\ closed.exit_reason = "EOD Exit"
           /\ closed.side = BUY_PE
           /\ closed.exit_price = last_op.args.pe_price
           /\ closed.exit_price > closed.sl

----------------------------------------------------------------------------
\* The position tracker and the order manager called directly: positions are
\* opened by open_position and by the T+1 execution of a queued signal, and
\* closed by close_position with any order id, by force_close_all_positions
\* and by the exit rules of update_positions.

\* order ids issued in a run
MaxOrders == 2

\* option candles at the entry: an ATR whose double has a third decimal, and
\* a flat option with ATR 0
OptionOddAtr == [open |-> 12005, close |-> 12100, high |-> 12200, low |-> 11900,
                 atr |-> 13333, strike_price |-> 25000]
OptionFlat == [open |-> 50, close |-> 50, high |-> 50, low |-> 50,
               atr |-> 0, strike_price |-> 25000]
EntryCandles == {OptionRising, OptionFalling, OptionOddAtr, OptionFlat, OptionNoAtr}

\* the arguments of direct calls of open_position
OpenInputs ==
    {[side |-> BUY_CE, strike |-> 25000, entry_price |-> 12050, sl |-> 11250,
      tp1 |-> 13050],
     [side |-> BUY_PE, strike |-> 25000, entry_price |-> 8000, sl |-> 7000,
      tp1 |-> 9000]}

\* exit prices with their exit reasons, and the last-known prices (CE, PE),
\* of direct calls
ExitInputs == {<<11000, "SL Hit">>, <<12575, "Manual">>}
LastKnownPrices == {<<12500, 9000>>, <<0, 0>>}

\* the candles of 10:15 and 10:20
EntryTimes == {12 * TicksPerCandle, 13 * TicksPerCandle}

\* order ids issued, and the one a queued signal will take
OrdersPlanned == (next_order - 1) + (IF pending_signal # None THEN 1 ELSE 0)

TrackerRecord(op, time, ret, a) ==
    [op |-> op, time |-> time, ret |-> ret, no_data |-> FALSE, args |-> a]

\* PaperOrderManager.on_signal_detected
TrackerEnqueue ==
    \E signal \in Signals, signal_time \in EntryTimes :
        /\ OrdersPlanned < MaxOrders
        /\ SetOM(on_signal_detected(OMState, signal, signal_time))
        /\ last_op' = TrackerRecord("on_signal_detected", signal_time, NoOrder,
                                    [signal |-> signal])
        /\ UNCHANGED env_vars

\* PaperOrderManager.execute_pending_signal, both sides with the same candle
TrackerExecute ==
    \E candle \in EntryCandles, current_time \in EntryTimes :
        LET r == execute_pending_signal(OMState, candle, candle, current_time)
        IN  /\ SetOM(r.s)
            /\ last_op' = TrackerRecord("execute_pending_signal", current_time,
                                        r.ret, [option_data |-> candle])
            /\ UNCHANGED env_vars

\* PositionTracker.open_position
TrackerOpen ==
    \E i \in OpenInputs :
        LET r == open_position(OMState, i.side, i.strike, i.entry_price, i.sl,
                               i.tp1, 13 * TicksPerCandle, 12 * TicksPerCandle)
        IN  /\ OrdersPlanned < MaxOrders
            /\ SetOM(r.s)
            /\ last_op' = TrackerRecord("open_position", 13 * TicksPerCandle,
                                        r.ret, i)
            /\ UNCHANGED env_vars

\* PositionTracker.close_position, for an order id that is open, closed or
\* was never issued
TrackerClose ==
    \E order_id \in 1..next_order, exit \in ExitInputs :
        LET exit_price == exit[1]
            exit_reason == exit[2]
            r == close_position(OMState, order_id, exit_price, exit_reason,
                                14 * TicksPerCandle)
        IN  /\ SetOM(r.s)
            /\ last_op' = [TrackerRecord("close_position", 14 * TicksPerCandle,
                               NoOrder,
                               [order_id |-> order_id, exit_price |-> exit_price,
                                exit_reason |-> exit_reason])
                           EXCEPT !.ret = NoOrder]
                          @@ [found |-> r.found, log |-> r.log, exc |-> r.exc]
            /\ UNCHANGED env_vars

\* PaperOrderManager.force_close_all_positions
TrackerForceClose ==
    \E ltp \in LastKnownPrices :
        /\ SetOM(force_close_all_positions(OMState, ltp[1], ltp[2], ForceNow))
        /\ last_op' = TrackerRecord("force_close_all_positions", ForceNow,
                                    NoOrder, [ce_price |-> ltp[1],
                                              pe_price |-> ltp[2]])
        /\ UNCHANGED env_vars

\* PaperOrderManager.update_positions with a falling or a calm option candle,
\* at 10:25 or at 15:25
TrackerUpdate ==
    \E candle \in {OptionFalling, OptionCalm},
       current_time \in {14 * TicksPerCandle, 74 * TicksPerCandle} :
        LET a == UpdateArgs(candle.close, candle.close, candle.high, candle.high,
                            candle, candle, NiftyUp(current_time), current_time)
            r == update_positions(OMState, a)
        IN  /\ SetOM(r.s)
            /\ last_op' = TrackerRecord("update_positions", current_time,
                                        r.new_order_id, a)
            /\ UNCHANGED env_vars

\* the tracker's own operations and the closing operations of the manager
NextTracker ==
    \/ TrackerOpen
    \/ TrackerClose
    \/ TrackerForceClose
    \/ TrackerUpdate

SpecTracker == Init /\ [][NextTracker]_vars

\* the entry side of the order manager: the queue, the T+1 execution, and
\* the forced close that ends a trade
NextEntry ==
    \/ TrackerEnqueue
    \/ TrackerExecute
    \/ TrackerForceClose

SpecEntry == Init /\ [][NextEntry]_vars

\* close_position's P&L on its own, for entry and exit prices in thousandths
\* of a point, on and off the 0.01 grid
PnlEntryPrices == {120500 + k : k \in 0..10}
PnlExitPrices == {125000 + 5 * k : k \in 0..10} \cup {93830}

ClosePnlCall ==
    \E entry_price \in PnlEntryPrices, exit_price \in PnlExitPrices :
        /\ last_op' = [op |-> "close_position_pnl", time |-> NoTime,
                       ret |-> NoOrder, no_data |-> FALSE,
                       args |-> [entry_price |-> entry_price,
                                 exit_price |-> exit_price,
                                 quantity |-> LOT_SIZE],
                       pnl |-> ClosePnl(entry_price, exit_price, LOT_SIZE)]
        /\ UNCHANGED <<om_vars, env_vars>>

SpecPnl == Init /\ [][ClosePnlCall]_vars

----------------------------------------------------------------------------
\* Properties of the tracker and of the entry side

ClosingOps == {"close_position", "force_close_all_positions", "update_positions"}

\* C22: a position leaves the open set only in an operation that closes it,
\* with one record of status CLOSED appended to the history; the history only
\* grows, its records never change, no order id is in it twice or in it and
\* open, and an order id that enters the open set was never used before
C22_ClosedIsTerminal ==
    [][/\ \A id \in DOMAIN open_positions \ DOMAIN open_positions' :
            /\ last_op'.op \in ClosingOps
            /\ Cardinality(ClosedRecordsOf(id)) = 1
            /\ \A i \in ClosedRecordsOf(id) :
                 /\ i > Len(closed_positions)
                 /\ closed_positions'[i].status = "CLOSED"
       /\ \A id \in DOMAIN open_positions' :
            /\ open_positions'[id].status = "OPEN"
            /\ ClosedRecordsOf(id) = {}
            /\ id \notin DOMAIN open_positions
               => /\ last_op'.op \in {"open_position", "execute_pending_signal",
                                      "update_positions"}
                  /\ id >= next_order
       /\ Len(closed_positions') >= Len(closed_positions)
       /\ SubSeq(closed_positions', 1, Len(closed_positions)) = closed_positions
       /\ Len(closed_positions') - Len(closed_positions)
            = Cardinality(DOMAIN open_positions \ DOMAIN open_positions')
       /\ \A i, j \in DOMAIN closed_positions' :
            closed_positions'[i].order_id = closed_positions'[j].order_id
            => i = j]_vars

\* close_position has just been called for a position that was closed
\* before, while another position is open
C22_Witness ==
    /\ last_op.op = "close_position"
    /\ ~last_op.found
    /\ \E i \in DOMAIN closed_positions :
         closed_positions[i].order_id = last_op.args.order_id
    /\ DOMAIN open_positions # {}

\* C23 as stated: closing an order id that is not open raises (an assertion
\* failure) and changes neither the open set nor the history
C23_CloseOfUnknownRaises ==
    [][( /\ last_op'.op = "close_position"
         /\ last_op'.args.order_id \notin DOMAIN open_positions )
       => /\ last_op'.exc # None
          /\ UNCHANGED <<open_positions, closed_positions>>]_vars

\* C23: closing an order id that is not open logs an error and returns None
\* without raising, and changes neither the open set nor the history
C23_CloseOfUnknownLogsError ==
    [][( /\ last_op'.op = "close_position"
         /\ last_op'.args.order_id \notin DOMAIN open_positions )
       => /\ ~last_op'.found
          /\ last_op'.log = "error"
          /\ last_op'.exc = None
          /\ UNCHANGED om_vars]_vars

\* close_position has just been called with an order id that was never
\* issued, with one position open and one in the history
C23_Witness ==
    /\ last_op.op = "close_position"
    /\ last_op.args.order_id = next_order
    /\ ~last_op.found
    /\ DOMAIN open_positions # {}
    /\ closed_positions # <<>>

\* C24: when force_close_all_positions returns no position is open, and every
\* position that was open has one closed record, with reason Force EOD Close
\* and the price supplied for its side
C24_ForceCloseLeavesNoneOpen ==
    [][last_op'.op = "force_close_all_positions"
       => /\ DOMAIN open_positions' = {}
          /\ \A id \in DOMAIN open_positions :
               ClosedAs(id, "Force EOD Close",
                        IF open_positions[id].side = BUY_CE
                        THEN last_op'.args.ce_price
                        ELSE last_op'.args.pe_price)]_vars

\* force_close_all_positions has just closed a CE and a PE position, each at
\* the price of its side
C24_Witness ==
    /\ last_op.op = "force_close_all_positions"
    /\ last_op.args.ce_price # last_op.args.pe_price
    /\ DOMAIN open_positions = {}
    /\ \E i, j \in DOMAIN closed_positions :
         /\ closed_positions[i].exit_reason = "Force EOD Close"
         /\ closed_positions[j].exit_reason = "Force EOD Close"
         /\ closed_positions[i].side = BUY_CE
         /\ closed_positions[j].side = BUY_PE
         /\ closed_positions[i].exit_price = last_op.args.ce_price
         /\ closed_positions[j].exit_price = last_op.args.pe_price

\* C25: on_signal_detected called while a position is open or a signal is
\* pending changes nothing: the queued signal and its time are kept and no
\* position is opened
C25_RejectedEnqueueIsNoOp ==
    [][( /\ last_op'.op = "on_signal_detected"
         /\ (DOMAIN open_positions # {} \/ pending_signal # None) )
       => UNCHANGED om_vars]_vars

\* a second signal of the other side, with another time, has just been
\* offered and the first one is still queued
C25_Witness ==
    /\ last_op.op = "on_signal_detected"
    /\ pending_signal = BUY_CE
    /\ last_op.args.signal = BUY_PE
    /\ pending_signal_time < last_op.time

\* C27: a position opened by execute_pending_signal has entry_price = option
\* open + 0.5, sl = round(entry_price - min(SL_MULTIPLIER * ATR, MAX_SL_POINTS), 2)
\* and tp1 = entry_price + TP1_POINTS; its stop distance is at most
\* MAX_SL_POINTS and sl <= entry_price < tp1
C27_EntryLevels ==
    [][( /\ last_op'.op = "execute_pending_signal"
         /\ last_op'.ret # NoOrder )
       => LET position == open_positions'[last_op'.ret]
              option_data == last_op'.args.option_data
              distance == Min(SL_MULTIPLIER * option_data.atr, MAX_SL_POINTS)
          IN  /\ position.entry_price = option_data.open + SLIPPAGE
              /\ position.sl = Round2(position.entry_price * 10 - distance)
              /\ position.initial_sl = position.sl
              /\ position.tp1 = position.entry_price + TP1_POINTS
              /\ (position.entry_price - position.sl) * 10 <= MAX_SL_POINTS
              /\ position.sl <= position.entry_price
              /\ position.entry_price < position.tp1]_vars

\* a position has just been opened from an option whose doubled ATR is above
\* MAX_SL_POINTS: its stop is MAX_SL_POINTS below the entry
C27_Witness ==
    /\ last_op.op = "execute_pending_signal"
    /\ last_op.ret \in DOMAIN open_positions
    /\ SL_MULTIPLIER * last_op.args.option_data.atr > MAX_SL_POINTS
    /\ (open_positions[last_op.ret].entry_price
          - open_positions[last_op.ret].sl) * 10 = MAX_SL_POINTS

\* the exact P&L of the last call, in thousandths of a point
ExactPnlPoints == last_op.args.exit_price - last_op.args.entry_price

OnGrid(price) == price % 10 = 0

\* C28 as stated: for every entry and exit price the closed record has
\* pnl_points = X - entry_price and pnl_inr = pnl_points * quantity
C28_PnlExact ==
    last_op.op = "close_position_pnl"
    => /\ last_op.pnl.pnl_points * 10 = ExactPnlPoints
       /\ last_op.pnl.pnl_inr = last_op.pnl.pnl_points * last_op.args.quantity

\* C28: the closed record has pnl_points and pnl_inr within 0.005 of
\* X - entry_price and of (X - entry_price) * quantity (each is rounded to two
\* decimals on its own), and exactly X - entry_price and pnl_points *
\* quantity when both prices are multiples of 0.01
C28_PnlRounded ==
    last_op.op = "close_position_pnl"
    => LET points == last_op.pnl.pnl_points * 10 - ExactPnlPoints
           inr == last_op.pnl.pnl_inr * 10
                    - ExactPnlPoints * last_op.args.quantity
       IN  /\ 0 - 5 <= points /\ points <= 5
           /\ 0 - 5 <= inr /\ inr <= 5
           /\ OnGrid(last_op.args.entry_price) /\ OnGrid(last_op.args.exit_price)
              => /\ points = 0
                 /\ last_op.pnl.pnl_inr
                      = last_op.pnl.pnl_points * last_op.args.quantity

\* a close at 125.00 of a position entered at 120.50: 4.50 points, 337.50 INR
C28_Witness ==
    /\ last_op.op = "close_position_pnl"
    /\ last_op.args.entry_price = 120500
    /\ last_op.args.exit_price = 125000
    /\ last_op.pnl.pnl_points = 450
    /\ last_op.pnl.pnl_inr = 33750


----------------------------------------------------------------------------
\* The candle feed of the Phase-3 streamer on its own: initialize_warmup
\* stores the merged historical and intraday candles, then the websocket
\* thread aggregates ticks and closes a candle on the first tick of a later
\* 5-minute block.  A raw candle is the row the calculator keeps of it.

\* the wall-clock ticks the feed is followed for after the launch
MaxFeedTicks == 4

\* the candles a raw response holds at most
MaxRawCandles == 3

\* pd.isna(ts): the timestamp of a candle that does not parse
NaT == NoTime

\* the timestamps of the raw candles: the two candles closed before the
\* launch and the candle that is forming at the launch, which the intraday
\* response already lists
WarmupTimes == {LaunchTime - 2 * TicksPerCandle, LaunchTime - TicksPerCandle, LaunchTime}

\* the candle at the launch comes with either of two sets of values
RawCandles == {NiftyRowUp(t) : t \in WarmupTimes \cup {NaT}} \cup {NiftyRowDown(LaunchTime)}

\* combined_candles: the historical response followed by the intraday one,
\* in the order the API sends them
RawResponses == UNION {[1..n -> RawCandles] : n \in 0..MaxRawCandles}

\* a merge that keeps the order of the response
SortByTimestamp_KeepsOrder(candles) == candles

\* parsed_candles.sort(key=lambda x: x['timestamp']): a stable ascending sort
RECURSIVE SortByTimestamp(_)
SortByTimestamp(candles) ==
    IF candles = <<>> THEN candles
    ELSE LET c == Head(candles)
             rest == SortByTimestamp(Tail(candles))
             Earlier(x) == x.timestamp < c.timestamp
             NotEarlier(x) == x.timestamp >= c.timestamp
         IN  SelectSeq(rest, Earlier) \o <<c>> \o SelectSeq(rest, NotEarlier)

\* the parsing loop of _process_historical_candles_merged: a candle whose
\* timestamp is NaT or was seen before is skipped
RECURSIVE ParsedCandles(_)
ParsedCandles(candles) ==
    IF candles = <<>> THEN candles
    ELSE LET front == ParsedCandles(SubSeq(candles, 1, Len(candles) - 1))
             c == candles[Len(candles)]
         IN  IF c.timestamp = NaT THEN front
             ELSE IF \E i \in 1..Len(front) : front[i].timestamp = c.timestamp
             THEN front
             ELSE Append(front, c)

\* for candle in parsed_candles: add_candle(instrument_type, candle)
RECURSIVE FeedCandles(_, _, _)
FeedCandles(c, instrument_type, candles) ==
    IF candles = <<>> \/ InstrumentLen(c, instrument_type) < 0 THEN c
    ELSE FeedCandles(add_candle(c, instrument_type, Head(candles)),
                     instrument_type, Tail(candles))

process_historical_candles_merged(c, instrument_type, candles) ==
    FeedCandles(c, instrument_type, SortByTimestamp(ParsedCandles(candles)))

\* the record of a feed operation: the raw candles and the candles stored,
\* or the timestamp of the candles closed
FeedRecord(op, time, candles, stored) ==
    [op |-> op, time |-> time, ret |-> NoOrder, no_data |-> FALSE,
     candles |-> candles, stored |-> stored]

\* initialize_warmup of the index, then start_websocket
FeedWarmup ==
    \E candles \in RawResponses :
        /\ main_pc = "start"
        /\ SetCalc(process_historical_candles_merged(CalcState, "NIFTY", candles))
        /\ last_op' = FeedRecord("initialize_warmup", NoTime, candles,
                                 SortByTimestamp(ParsedCandles(candles)))
        /\ now' = LaunchTime
        /\ main_pc' = "poll"
        /\ UNCHANGED <<om_vars, latest_prices, streamer_running, replay_pc,
                       last_date, trader_running, prices_ref, stop_signal,
                       force_closed, logs_saved, last_poll, bot_vars, current_candles,
                       current_candle_start, cb_pc, ws_tick, cb_signal,
                       cb_signal_time>>

\* datetime.now() of the websocket thread moves forward
FeedClockTick ==
    /\ main_pc = "poll"
    /\ now < LaunchTime + MaxFeedTicks
    /\ now' = now + 1
    /\ UNCHANGED <<om_vars, last_op, calc_vars, streamer_vars, trader_vars,
                   last_poll, bot_vars, current_candles, current_candle_start, cb_pc,
                   ws_tick, cb_signal, cb_signal_time>>

\* _update_candle_with_tick of one tick, with no callback registered: the
\* first tick of a later 5-minute block closes the forming candles, realigns
\* the grid start and starts the new candle of its instrument
FeedTick ==
    \E instrument_name \in Instruments : \E ltp \in TickPrices(instrument_name) :
        /\ main_pc = "poll"
        /\ LET start == IF current_candle_start = NoTime THEN AlignToGrid(now)
                        ELSE current_candle_start
           IN  IF now >= start + TicksPerCandle
               THEN /\ SetCalc(close_candles(CalcState, current_candles,
                                             NiftyRowUp(start)))
                    /\ current_candle_start' = AlignToGrid(now)
                    /\ current_candles' =
                           [[NIFTY |-> Absent, CE |-> Absent, PE |-> Absent] EXCEPT
                               ![instrument_name] =
                                   FormingCandle(AlignToGrid(now), ltp)]
                    /\ last_op' = FeedRecord("close_candles", start, <<>>, <<>>)
               ELSE /\ current_candle_start' = start
                    /\ current_candles' = [current_candles EXCEPT
                           ![instrument_name] =
                               IF @ = Absent THEN FormingCandle(start, ltp)
                               ELSE UpdateCandle(@, ltp)]
                    /\ UNCHANGED <<calc_vars, last_op>>
        /\ UNCHANGED <<om_vars, latest_prices, streamer_running, replay_pc,
                       last_date, trader_vars, now, last_poll, bot_vars, cb_pc, ws_tick,
                       cb_signal, cb_signal_time>>

NextFeed == FeedWarmup \/ FeedClockTick \/ FeedTick

SpecFeed == Init /\ [][NextFeed]_vars

\* the timestamps of a list of candles, and whether they strictly ascend
Timestamps(candles) == {candles[i].timestamp : i \in 1..Len(candles)}
StrictlyAscending(candles) ==
    \A i \in 1..Len(candles) - 1 : candles[i].timestamp < candles[i + 1].timestamp

\* the first candle of a response that carries a timestamp
FirstWith(candles, ts) ==
    candles[CHOOSE i \in 1..Len(candles) :
                /\ candles[i].timestamp = ts
                /\ \A j \in 1..(i - 1) : candles[j].timestamp # ts]

\* a buffer holds what appending the stored candles to an empty one leaves:
\* their number and the last two of them
BufferHolds(buffer, stored) ==
    /\ buffer.len = Len(stored)
    /\ buffer.rows = SubSeq(stored, Max(1, Len(stored) - 1), Len(stored))

\* a step appended a candle to a buffer that held one
AppendedTo(instrument_type) ==
    /\ InstrumentBuffer(instrument_type).len > 0
    /\ InstrumentLen(CalcState, instrument_type)' > InstrumentBuffer(instrument_type).len

----------------------------------------------------------------------------
\* The entry evaluator on its own, and behind the candle-close handler late
\* in the day.  A behaviour either applies check_entry_signal to a DataFrame
\* (its last two rows and its length), or takes the replay at the candle of
\* 15:00, flat and idle, and follows the handler over the next candles.

\* the slot of the candle stamped ENTRY_END
EntryEndSlot == (ENTRY_END - MarketOpenMinute) \div CandleMinutes

\* the slot of the candle stamped ENTRY_START
EntryStartSlot == (ENTRY_START - MarketOpenMinute) \div CandleMinutes

\* the candles the handler is followed for around the end of the window
MaxLateCandles == 4

\* values of VI+ and VI- on a row, and closes around the EMA of 10
ViValues == {1, 2, 3}
CloseValues == {9, 10, 11}

\* timestamps of an evaluated row: the candles of 09:25, 09:30, 15:10 and
\* 15:15, and a timestamp that is NaT
SignalTimes ==
    {CandleTime(1, EntryStartSlot - 1), CandleTime(1, EntryStartSlot),
     CandleTime(1, EntryEndSlot), CandleTime(1, EntryEndSlot + 1), NoTime}

SignalRow(t, close, vi_plus, vi_minus) ==
    [timestamp |-> t, close |-> close, ema |-> 10, macd_hist |-> close - 10,
     vi_plus |-> vi_plus, vi_minus |-> vi_minus]

\* the row before the evaluated one
PreviousRows ==
    {SignalRow(CandleTime(1, 0), 10, vi_plus, vi_minus) :
        vi_plus \in ViValues, vi_minus \in ViValues}

EvaluatedRows ==
    {SignalRow(t, close, vi[1], vi[2]) :
        t \in SignalTimes, close \in CloseValues, vi \in ViValues \X ViValues}

\* the record of a call of the evaluator
SignalRecord(df, idx, signal) ==
    [op |-> "check_entry_signal", time |-> LastRow(df).timestamp,
     ret |-> NoOrder, no_data |-> FALSE, df |-> df, idx |-> idx,
     signal |-> signal]

\* check_entry_signal(df, len(df) - 1) on a DataFrame of one to four rows,
\* called once
SignalEvaluate ==
    \E row \in EvaluatedRows, prev_row \in PreviousRows, length \in 1..4 :
        /\ replay_pc = "idle"
        /\ last_op.op = "init"
        /\ LET df == [len |-> length,
                      rows |-> IF length = 1 THEN <<row>> ELSE <<prev_row, row>>]
           IN  last_op' = SignalRecord(df, length - 1,
                                       check_entry_signal(df, length - 1))
        /\ UNCHANGED <<om_vars, calc_vars, streamer_vars, trader_vars, live_vars>>

\* the replay when the candle of 15:00 has been handled: the warm-up rows of
\* the day before and the rows of the day are buffered, all of one trend, so
\* that no signal was given and the trader is flat and idle
ReplayUntilAfternoon ==
    /\ replay_pc = "idle"
    /\ last_op.op = "init"
    /\ LET n == EntryEndSlot - 1
           c1 == LoadHistory(CalcState, "NIFTY", STABILITY_MIN_CANDLES, 0,
                             STABILITY_MIN_CANDLES + n)
           c2 == LoadHistory(c1, "CE", 0, 0, n)
           c3 == LoadHistory(c2, "PE", 0, 0, n)
       IN  SetCalc(RefreshIndicators(c3))
    /\ latest_prices' = [CE |-> PriceEntry(OptionRising),
                         PE |-> PriceEntry(OptionFalling)]
    /\ last_date' = 1
    /\ streamer_running' = TRUE
    /\ replay_pc' = "replay"
    /\ last_op' = OpRecord("initialize_warmup", NoTime, NoOrder, FALSE)
    /\ UNCHANGED <<om_vars, trader_vars, live_vars>>

\* _run_mock_simulation: the iteration of a row of the afternoon, with the
\* on_candle_closed callback it makes
LateCandle ==
    /\ replay_pc = "replay"
    /\ streamer_running
    /\ \E nifty_row \in NiftyRows(LastRow(nifty_buffer).timestamp + TicksPerCandle) :
        /\ SlotOf(LastRow(nifty_buffer).timestamp)
             < Min(EntryEndSlot - 2 + MaxLateCandles, SlotsPerDay - 1)
        /\ LET timestamp == nifty_row.timestamp
               c1 == add_candle(CalcState, "NIFTY", nifty_row)
               c2 == add_candle(c1, "CE", OptionCandle(timestamp, OptionRising))
               c3 == add_candle(c2, "PE", OptionCandle(timestamp, OptionFalling))
               r == on_candle_closed(OMState, c3, latest_prices, "NIFTY")
           IN  /\ SetOM(r.s)
               /\ SetCalc(r.c)
               /\ last_op' = CandleRecord(timestamp, r)
               /\ IF r.exc # None
                  THEN streamer_running' = FALSE /\ replay_pc' = "done"
                  ELSE UNCHANGED <<streamer_running, replay_pc>>
        /\ UNCHANGED <<latest_prices, last_date, trader_vars, live_vars>>

NextSignal == SignalEvaluate \/ ReplayUntilAfternoon \/ LateCandle

SpecSignal == Init /\ [][NextSignal]_vars

\* the time of day of an instant lies in [ENTRY_START, ENTRY_END]
InEntryWindow(t) ==
    /\ t # NoTime
    /\ ENTRY_START <= TimeOfDay(t)
    /\ TimeOfDay(t) <= ENTRY_END

\* C29: a call of the evaluator with an index below 2, or on a row whose
\* time of day is outside 09:30 to 15:10, returns None; and the signal_time
\* of the queued signal and of every position is inside 09:30 to 15:10
C29_NoSignalOutsideWindow ==
    /\ ( /\ last_op.op = "check_entry_signal"
         /\ (last_op.idx < 2 \/ ~InEntryWindow(last_op.time)) )
       => last_op.signal = None
    /\ pending_signal # None => InEntryWindow(pending_signal_time)
    /\ \A position \in AllPositions : InEntryWindow(position.signal_time)

\* the candle of 15:15 closed while the trader was flat and idle and the
\* scanner was called; its rows give a bullish vortex above the EMA, and
\* nothing is enqueued
C29_Witness ==
    /\ last_op.op = "on_candle_closed"
    /\ last_op.time = CandleTime(1, EntryEndSlot + 1)
    /\ last_op.scanned
    /\ nifty_df.rows = <<NiftyRowDown(CandleTime(1, EntryEndSlot)),
                         NiftyRowUp(CandleTime(1, EntryEndSlot + 1))>>
    /\ pending_signal = None
    /\ AllPositions = {}

\* the conditions of the two signals on the evaluated row and the one before
BullishEntry(row, prev_row) ==
    /\ row.vi_plus > row.vi_minus
    /\ row.vi_plus - row.vi_minus > prev_row.vi_plus - prev_row.vi_minus
    /\ row.close > row.ema
BearishEntry(row, prev_row) ==
    /\ row.vi_minus > row.vi_plus
    /\ row.vi_minus - row.vi_plus > prev_row.vi_minus - prev_row.vi_plus
    /\ row.close < row.ema

\* the signal the rows of a DataFrame call for
CalledFor(df) ==
    IF BullishEntry(df.rows[2], df.rows[1]) THEN BUY_CE
    ELSE IF BearishEntry(df.rows[2], df.rows[1]) THEN BUY_PE
    ELSE None

\* C30: on a row inside the entry window, at an index of 2 or more, the
\* evaluator returns BUY_CE exactly when VI+ is above VI-, by more than on
\* the previous row, and the close is above the EMA, BUY_PE exactly under
\* the mirrored condition, and None otherwise; the two conditions never
\* hold together; and the signal the scanner reports for a candle whose
\* indicators it computed is the one the buffered rows call for, whatever the
\* orders and prices
C30_SignalFromVortexAndEma ==
    /\ ( /\ last_op.op = "check_entry_signal"
         /\ last_op.idx >= 2
         /\ InEntryWindow(last_op.time) )
       => /\ last_op.signal = BUY_CE
              <=> BullishEntry(last_op.df.rows[2], last_op.df.rows[1])
          /\ last_op.signal = BUY_PE
              <=> BearishEntry(last_op.df.rows[2], last_op.df.rows[1])
          /\ last_op.signal \in {BUY_CE, BUY_PE, None}
          /\ ~( /\ BullishEntry(last_op.df.rows[2], last_op.df.rows[1])
                /\ BearishEntry(last_op.df.rows[2], last_op.df.rows[1]) )
    /\ ( /\ last_op.op = "on_candle_closed"
         /\ last_op.scanned
         /\ nifty_indicators.timestamp = last_op.time
         /\ InEntryWindow(last_op.time) )
       => last_op.signal = CalledFor(nifty_df)

\* the evaluator was called at 15:10 on a row with VI+ above VI- and the
\* close above the EMA, but a gap equal to the previous row's: no signal
C30_Witness ==
    /\ last_op.op = "check_entry_signal"
    /\ last_op.idx = 2
    /\ last_op.time = CandleTime(1, EntryEndSlot)
    /\ last_op.df.rows = <<SignalRow(CandleTime(1, 0), 10, 3, 1),
                           SignalRow(CandleTime(1, EntryEndSlot), 11, 3, 1)>>
    /\ last_op.signal = None

----------------------------------------------------------------------------
\* calculate_entry_levels and its caller with any side value: the evaluator
\* gives BUY_CE and BUY_PE only, on_signal_detected takes what it is given.

\* side values: the two signals and one that is neither
LevelSides == Signals \cup {"SELL_CE"}

\* entry prices (hundredths) and option ATRs (thousandths)
LevelPrices == {12050 + 100 * k : k \in 0..9}
LevelAtrs == {0, 4000, 13333, 20000}

\* StrategyV30.calculate_entry_levels has no raise statement: exc is the
\* exception a call ends with
LevelsRecord(side, entry_price, option_atr) ==
    [op |-> "calculate_entry_levels", time |-> NoTime, ret |-> NoOrder,
     no_data |-> FALSE,
     args |-> [side |-> side, entry_price |-> entry_price, option_atr |-> option_atr],
     levels |-> calculate_entry_levels(side, entry_price, option_atr),
     exc |-> None]

\* calculate_entry_levels called once
LevelsCall ==
    \E side \in LevelSides, entry_price \in LevelPrices, option_atr \in LevelAtrs :
        /\ last_op.op = "init"
        /\ last_op' = LevelsRecord(side, entry_price, option_atr)
        /\ UNCHANGED <<om_vars, env_vars>>

\* PaperOrderManager.on_signal_detected with any side value
LevelsEnqueue ==
    \E signal \in LevelSides :
        /\ last_op.op # "calculate_entry_levels"
        /\ OrdersPlanned < MaxOrders
        /\ SetOM(on_signal_detected(OMState, signal, 12 * TicksPerCandle))
        /\ last_op' = TrackerRecord("on_signal_detected", 12 * TicksPerCandle,
                                    NoOrder, [signal |-> signal])
        /\ UNCHANGED env_vars

\* PaperOrderManager.execute_pending_signal on the next candle
LevelsExecute ==
    \E candle \in {OptionRising, OptionFalling} :
        LET r == execute_pending_signal(OMState, candle, OptionOddAtr,
                                        13 * TicksPerCandle)
        IN  /\ last_op.op # "calculate_entry_levels"
            /\ pending_signal # None
            /\ SetOM(r.s)
            /\ last_op' = TrackerRecord("execute_pending_signal",
                                        13 * TicksPerCandle, r.ret,
                                        [option_data |-> candle])
            /\ UNCHANGED env_vars

\* force_close_all_positions, after which the next signal can be queued
LevelsForceClose ==
    /\ DOMAIN open_positions # {}
    /\ SetOM(force_close_all_positions(OMState, 12500, 9000, ForceNow))
    /\ last_op' = TrackerRecord("force_close_all_positions", ForceNow, NoOrder,
                                [ce_price |-> 12500, pe_price |-> 9000])
    /\ UNCHANGED env_vars

NextLevels == LevelsCall \/ LevelsEnqueue \/ LevelsExecute \/ LevelsForceClose

SpecLevels == Init /\ [][NextLevels]_vars

\* C31: a call of calculate_entry_levels with a side that is neither BUY_CE
\* nor BUY_PE ends with an exception and returns no levels, and no position
\* has such a side
C31_InvalidSideRaises ==
    /\ ( /\ last_op.op = "calculate_entry_levels"
         /\ last_op.args.side \notin Signals )
       => last_op.exc # None
    /\ \A position \in AllPositions : position.side \in Signals

----------------------------------------------------------------------------
\* The candle buffers as the deques they are, with a small buffer_size: a
\* buffer record holds every candle of its deque in rows.

\* IndicatorCalculator(buffer_size=...)
SmallBufferSize == 3

\* the candles added to one buffer in a run
MaxBufferAdds == 5

\* a variant of the deque that drops the new candle when it is full, and one
\* that drops the newest candle it holds
DequeAppend_DropsNew(rows, maxlen, candle) ==
    IF Len(rows) < maxlen THEN Append(rows, candle) ELSE rows
DequeAppend_EvictsNewest(rows, maxlen, candle) ==
    IF Len(rows) < maxlen THEN Append(rows, candle)
    ELSE Append(SubSeq(rows, 1, Len(rows) - 1), candle)

\* deque(maxlen=buffer_size).append(candle)
DequeAppend(rows, maxlen, candle) ==
    IF maxlen = 0 THEN rows
    ELSE IF Len(rows) < maxlen THEN Append(rows, candle)
    ELSE Append(Tail(rows), candle)

\* a buffer after the append of a candle
DequeBufferAppend(buffer, maxlen, candle) ==
    LET rows == DequeAppend(buffer.rows, maxlen, candle)
    IN  [len |-> Len(rows),
         today |-> Cardinality({i \in 1..Len(rows) :
                      DateOf(rows[i].timestamp) = DateOf(rows[Len(rows)].timestamp)}),
         rows |-> rows]

\* IndicatorCalculator.add_candle on the deques; any other tag is ignored
deque_add_candle(c, buffer_size, instrument_type, candle) ==
    IF instrument_type = "NIFTY"
    THEN [c EXCEPT !.nifty_buffer = DequeBufferAppend(@, buffer_size, candle)]
    ELSE IF instrument_type = "CE"
    THEN [c EXCEPT !.ce_buffer = DequeBufferAppend(@, buffer_size, candle)]
    ELSE IF instrument_type = "PE"
    THEN [c EXCEPT !.pe_buffer = DequeBufferAppend(@, buffer_size, candle)]
    ELSE c

\* the tags add_candle is called with: the three instruments and another
BufferTags == Instruments \cup {"FUT"}

\* the candles of a tag at a timestamp
BufferCandles(instrument_type, ts) ==
    IF instrument_type = "NIFTY" THEN NiftyRows(ts)
    ELSE {OptionCandle(ts, OptionRising), OptionCandle(ts, OptionFalling)}

\* the timestamp of the candle after the ones an instrument has received
NextBufferTime(buffer) ==
    IF buffer.len = 0 THEN CandleTime(1, 0)
    ELSE LastRow(buffer).timestamp + TicksPerCandle

BufferRecord(instrument_type, candle) ==
    [op |-> "add_candle", time |-> candle.timestamp, ret |-> NoOrder,
     no_data |-> FALSE, instrument |-> instrument_type, candle |-> candle]

\* add_candle(instrument_type, candle)
BufferAddCandle ==
    \E instrument_type \in BufferTags :
      LET buffer == IF instrument_type \in Instruments
                    THEN InstrumentBuffer(instrument_type) ELSE nifty_buffer
      IN  \E candle \in BufferCandles(instrument_type, NextBufferTime(buffer)) :
            /\ CandleOf(candle.timestamp) < SlotsPerDay + MaxBufferAdds
            /\ SetCalc(deque_add_candle(CalcState, SmallBufferSize,
                                        instrument_type, candle))
            /\ last_op' = BufferRecord(instrument_type, candle)
            /\ UNCHANGED <<om_vars, streamer_vars, trader_vars, live_vars>>

SpecBuffer == Init /\ [][BufferAddCandle]_vars

\* C32: no buffer holds more candles than buffer_size; add_candle of a tag
\* appends the candle to that tag's buffer, after dropping the oldest candle
\* when the buffer was full, keeps the other candles in their order, and
\* leaves the other buffers, the DataFrame and the indicator snapshots as they
\* were; a tag that is none of the three changes nothing
C32_BufferBounded ==
    [][ /\ \A tag \in Instruments : InstrumentBuffer(tag)'.len <= SmallBufferSize
        /\ \A tag \in Instruments :
             LET before == InstrumentBuffer(tag).rows
                 after == InstrumentBuffer(tag)'.rows
             IN  IF last_op'.op = "add_candle" /\ last_op'.instrument = tag
                 THEN /\ after[Len(after)] = last_op'.candle
                      /\ IF Len(before) < SmallBufferSize
                         THEN SubSeq(after, 1, Len(after) - 1) = before
                         ELSE SubSeq(after, 1, Len(after) - 1) = Tail(before)
                 ELSE after = before
        /\ UNCHANGED <<nifty_df, nifty_indicators, ce_indicators, pe_indicators>>
      ]_vars

\* a candle was added to the full NIFTY buffer: the buffer holds the second
\* and third candle it held, then the new one
C32_Witness ==
    /\ last_op.op = "add_candle"
    /\ last_op.instrument = "NIFTY"
    /\ nifty_buffer.len = SmallBufferSize
    /\ nifty_buffer.rows[1].timestamp = CandleTime(1, 1)
    /\ nifty_buffer.rows[SmallBufferSize] = last_op.candle
    /\ ce_buffer.len = 1

----------------------------------------------------------------------------
\* The Phase-2 backtest loop (paper_trader_dynamic.run_backtest with the
\* StrategyV30 of Phase-2) beside the live candle handler, on the same rows.
\* The loop opens its position on the signal candle from the NEXT candle's
\* option row and then skips until that candle is past; here the loop keeps
\* the signal as planned and reads the option row when the next candle is
\* iterated, which is the same row.

\* Phase-2 StrategyV30: the cap of the stop distance and the choppiness
\* threshold of the entry filter
PHASE2_MAX_SL_POINTS == 25000
CHOP_THRESHOLD == 57

\* the candles iterated after 15:00
MaxBacktestCandles == 5

\* the choppiness column of a NIFTY row: trending, choppy
ChoppinessValues == {40, 60}

\* an option row that closes at 95.00: below the stop the backtest sets for
\* an entry at 120.50 with an ATR of 20 (95.50), above the live one (93.83)
OptionCrash == [open |-> 12000, close |-> 9500, high |-> 12100, low |-> 9400,
                atr |-> 20000, strike_price |-> 25000]

\* the option rows of a timestamp
BacktestOptionFeed == {<<OptionRising, OptionFalling>>, <<OptionFalling, OptionFalling>>, <<OptionCrash, OptionFalling>>}

\* Phase-2 StrategyV30.check_entry_signal on row idx of the day's DataFrame
phase2_check_entry_signal(row, prev_row, choppiness, idx) ==
    IF idx < 2 THEN None
    ELSE IF ~(ENTRY_START <= TimeOfDay(row.timestamp)
              /\ TimeOfDay(row.timestamp) <= ENTRY_END) THEN None
    ELSE IF choppiness > CHOP_THRESHOLD THEN None
    ELSE LET is_bullish_vortex ==
                 /\ row.vi_plus > row.vi_minus
                 /\ row.vi_plus - row.vi_minus > prev_row.vi_plus - prev_row.vi_minus
             is_bearish_vortex ==
                 /\ ~(row.vi_plus > row.vi_minus)
                 /\ row.vi_minus > row.vi_plus
                 /\ row.vi_minus - row.vi_plus > prev_row.vi_minus - prev_row.vi_plus
         IN  IF is_bullish_vortex /\ row.close > row.ema THEN BUY_CE
             ELSE IF is_bearish_vortex /\ row.close < row.ema THEN BUY_PE
             ELSE None

\* Phase-2 StrategyV30.calculate_entry_levels
phase2_calculate_entry_levels(side, entry_price, option_atr) ==
    LET atr_based_sl == SL_MULTIPLIER * option_atr
        actual_sl_distance == Min(atr_based_sl, PHASE2_MAX_SL_POINTS)
    IN  [sl |-> Round2(entry_price * 10 - actual_sl_distance),
         tp1 |-> entry_price + TP1_POINTS,
         atr_based_sl |-> atr_based_sl]

\* run_backtest before the first row: no position, no trade
NoBacktestPosition ==
    [open |-> FALSE, side |-> None, signal_time |-> NoTime, entry_time |-> NoTime,
     entry_price |-> 0, sl |-> 0, initial_sl |-> 0, tp1 |-> 0, tp1_hit |-> FALSE,
     highest |-> 0]

NoBacktest == [planned |-> None, signal_time |-> NoTime,
               position |-> NoBacktestPosition, trades |-> <<>>]

\* run_backtest, ENTRY LOGIC: the position planned at the signal candle is
\* opened from the option row of the execution candle, if its ATR is there
BacktestEntry(bt, execution_time, option_candle) ==
    IF IsNa(option_candle.atr) THEN [bt EXCEPT !.planned = None, !.signal_time = NoTime]
    ELSE LET entry_price == option_candle.open + SLIPPAGE
             levels == phase2_calculate_entry_levels(bt.planned, entry_price,
                                                     option_candle.atr)
         IN  [bt EXCEPT !.planned = None, !.signal_time = NoTime,
                        !.position = [open |-> TRUE, side |-> bt.planned,
                                      signal_time |-> bt.signal_time,
                                      entry_time |-> execution_time,
                                      entry_price |-> entry_price,
                                      sl |-> levels.sl,
                                      initial_sl |-> levels.sl,
                                      tp1 |-> levels.tp1,
                                      tp1_hit |-> FALSE,
                                      highest |-> option_candle.high]]

\* run_backtest, ENTRY LOGIC on a row with no position: the signal of the
\* row, planned for the next row of the day if there is one
BacktestSignal(bt, row, prev_row, choppiness) ==
    LET signal == phase2_check_entry_signal(row, prev_row, choppiness,
                                            SlotOf(row.timestamp))
    IN  IF signal # None /\ SlotOf(row.timestamp) + 1 < SlotsPerDay
        THEN [bt EXCEPT !.planned = signal, !.signal_time = row.timestamp]
        ELSE bt

\* run_backtest, UNIFIED POSITION MANAGEMENT on a row after the entry candle
BacktestManage(bt, row, current_candle) ==
    LET position == bt.position
        tp1_now == ~position.tp1_hit /\ current_candle.high >= position.tp1
        tp1_hit == position.tp1_hit \/ tp1_now
        sl == IF tp1_now THEN Round2((position.entry_price + TP1_LOCK_POINTS) * 10)
              ELSE position.sl
        managed == [position EXCEPT
                       !.highest = Max(position.highest, current_candle.high),
                       !.tp1_hit = tp1_hit, !.sl = sl]
        exit == IF check_sl_hit(position.side, current_candle.close, sl)
                THEN [reason |-> "SL Hit", price |-> sl]
                ELSE IF check_macd_ema_exit(position.side, tp1_hit, row.close,
                                            row.ema, row.macd_hist)
                THEN [reason |-> "MACD/EMA Exit", price |-> current_candle.close]
                ELSE IF check_eod_exit(TimeOfDay(row.timestamp))
                THEN [reason |-> "EOD Exit", price |-> current_candle.close]
                ELSE [reason |-> None, price |-> 0]
    IN  IF exit.reason = None THEN [bt EXCEPT !.position = managed]
        ELSE [bt EXCEPT !.position = NoBacktestPosition,
                        !.trades = Append(@, [signal_time |-> position.signal_time,
                                              entry_time |-> position.entry_time,
                                              side |-> position.side,
                                              entry_price |-> position.entry_price,
                                              exit_time |-> row.timestamp,
                                              exit_price |-> exit.price,
                                              exit_reason |-> exit.reason])]

\* run_backtest: the iteration of one NIFTY row with the option rows of its
\* timestamp
BacktestRow(bt, row, prev_row, choppiness, ce_candle, pe_candle) ==
    IF bt.position.open
    THEN BacktestManage(bt, row, IF bt.position.side = BUY_CE THEN ce_candle
                                 ELSE pe_candle)
    ELSE IF bt.planned # None
    THEN LET entered == BacktestEntry(bt, row.timestamp,
                                      IF bt.planned = BUY_CE THEN ce_candle
                                      ELSE pe_candle)
         IN  IF entered.position.open THEN entered
             ELSE BacktestSignal(entered, row, prev_row, choppiness)
    ELSE BacktestSignal(bt, row, prev_row, choppiness)

\* the state of the backtest loop after the rows iterated so far
BacktestState == IF "backtest" \in DOMAIN last_op THEN last_op.backtest ELSE NoBacktest

\* one row of the afternoon given to the live handler (as the replay does)
\* and to the backtest loop
BacktestCandle ==
    /\ replay_pc = "replay"
    /\ streamer_running
    /\ SlotOf(LastRow(nifty_buffer).timestamp)
         < Min(EntryEndSlot - 2 + MaxBacktestCandles, SlotsPerDay - 1)
    /\ \E nifty_row \in NiftyRows(LastRow(nifty_buffer).timestamp + TicksPerCandle) :
        \E option \in BacktestOptionFeed, choppiness \in ChoppinessValues :
          LET timestamp == nifty_row.timestamp
              ce_candle == OptionCandle(timestamp, option[1])
              pe_candle == OptionCandle(timestamp, option[2])
              c1 == add_candle(CalcState, "NIFTY", nifty_row)
              c2 == add_candle(c1, "CE", ce_candle)
              c3 == add_candle(c2, "PE", pe_candle)
              prices == [CE |-> PriceEntry(option[1]), PE |-> PriceEntry(option[2])]
              r == on_candle_closed(OMState, c3, prices, "NIFTY")
              bt == BacktestRow(BacktestState, nifty_row, LastRow(nifty_buffer),
                                choppiness, ce_candle, pe_candle)
          IN  /\ latest_prices' = prices
              /\ SetOM(r.s)
              /\ SetCalc(r.c)
              /\ last_op' = CandleRecord(timestamp, r)
                              @@ [backtest |-> bt, choppiness |-> choppiness]
              /\ IF r.exc # None
                 THEN streamer_running' = FALSE /\ replay_pc' = "done"
                 ELSE UNCHANGED <<streamer_running, replay_pc>>
    /\ UNCHANGED <<last_date, trader_vars, live_vars>>

NextBacktest == ReplayUntilAfternoon \/ BacktestCandle

SpecBacktest == Init /\ [][NextBacktest]_vars

\* the trades of the live pipeline, as the columns the backtest records
LiveTrades ==
    [i \in 1..Len(closed_positions) |->
        [signal_time |-> closed_positions[i].signal_time,
         entry_time |-> closed_positions[i].entry_time,
         side |-> closed_positions[i].side,
         entry_price |-> closed_positions[i].entry_price,
         exit_time |-> closed_positions[i].exit_time,
         exit_price |-> closed_positions[i].exit_price,
         exit_reason |-> closed_positions[i].exit_reason]]

\* the entries of the open positions of the live pipeline and of the backtest
LiveEntries ==
    {[signal_time |-> position.signal_time, entry_time |-> position.entry_time,
      side |-> position.side, entry_price |-> position.entry_price] :
        position \in {open_positions[k] : k \in DOMAIN open_positions}}

BacktestEntries ==
    IF ~BacktestState.position.open THEN {}
    ELSE {[signal_time |-> BacktestState.position.signal_time,
           entry_time |-> BacktestState.position.entry_time,
           side |-> BacktestState.position.side,
           entry_price |-> BacktestState.position.entry_price]}

\* C33: after every candle the live pipeline and the Phase-2 backtest loop,
\* fed the same NIFTY and option rows, have closed the same trades (signal
\* candle, entry candle, side, entry price, exit candle, exit price and exit
\* reason), hold the same entry, and wait on the same signal
C33_SameTradesAsBacktest ==
    last_op.op = "on_candle_closed" =>
        /\ LiveTrades = BacktestState.trades
        /\ LiveEntries = BacktestEntries
        /\ pending_signal = BacktestState.planned

----------------------------------------------------------------------------
\* Shutdown and the replay thread.  shutdown force-closes only when
\* self.running is still True, and the main loop has then ended because the
\* streamer's running is False: the replay thread has left its loop.

----------------------------------------------------------------------------
\* C35: after a candle-close event, the time update_positions read from the
\* NIFTY snapshot and passed to execute_pending_signal and to the exit
\* evaluation as current_candle_time is the timestamp of the NIFTY candle the
\* event ingested
C35_CurrentTimeIsCandleTime ==
    last_op.op = "on_candle_closed" => TraderCurrentTime(CalcState) = last_op.time

----------------------------------------------------------------------------
\* C36: whenever the polling loop calls update_positions (where
\* execute_pending_signal begins) or the callback enters on_signal_detected,
\* pending_signal and pending_signal_time are both set or both None
C36_PendingPairConsistent ==
    [][ ( \/ (last_poll' # last_poll /\ PollHasData)
          \/ (cb_pc # "check_open" /\ cb_pc' = "check_open") )
        => ((pending_signal = None) <=> (pending_signal_time = NoTime)) ]_vars

----------------------------------------------------------------------------
\* The stop of a position against the option prices the position has seen.
\* The record of the last operation carries, for every order, the highest
\* candle high the order manager was given for it since its entry candle.

\* the candles after 10:15 update_positions is called for
MaxStopCandles == 4

\* a candle whose high reaches TP1 of an entry at 120.50 (130.50) but not the
\* locked stop (133.50)
OptionTouch == [open |-> 12500, close |-> 12900, high |-> 13100, low |-> 12400,
                atr |-> 4000, strike_price |-> 25000]
StopCandles == {OptionRising, OptionFalling, OptionCalm, OptionTouch}

\* the highs recorded so far
ObservedHighs == IF "highs" \in DOMAIN last_op THEN last_op.highs ELSE <<>>

\* the highs after update_positions was given a candle high: the orders open
\* before the call and the order the call opened have seen it
HighsAfter(before, after, high) ==
    [order_id \in DOMAIN ObservedHighs \cup DOMAIN after.open_positions |->
        IF order_id \notin DOMAIN ObservedHighs THEN high
        ELSE IF order_id \in DOMAIN before.open_positions
        THEN Max(ObservedHighs[order_id], high)
        ELSE ObservedHighs[order_id]]

\* on_signal_detected on the candle last handled (10:15 at first)
StopsEnqueue ==
    /\ last_op.op # "on_signal_detected"
    /\ Len(closed_positions) < MaxTrades
    /\ \E signal \in Signals :
         LET signal_time == IF last_op.op = "init" THEN CandleTime(0, 12)
                            ELSE last_op.time
         IN  /\ SetOM(on_signal_detected(OMState, signal, signal_time))
             /\ last_op' = [op |-> "on_signal_detected", time |-> signal_time,
                            ret |-> NoOrder, no_data |-> FALSE,
                            highs |-> ObservedHighs]
    /\ UNCHANGED env_vars

\* update_positions on the next candle, with the candle of both options
StopsUpdatePositions ==
    /\ last_op.op # "init"
    /\ SlotOf(last_op.time) < 12 + MaxStopCandles
    /\ \E candle \in StopCandles :
        \E indicators \in {NiftyUp(last_op.time + TicksPerCandle),
                           NiftyDown(last_op.time + TicksPerCandle)} :
          LET current_time == last_op.time + TicksPerCandle
              a == UpdateArgs(candle.close, candle.close, candle.high, candle.high,
                              candle, candle, indicators, current_time)
              r == update_positions(OMState, a)
          IN  /\ SetOM(r.s)
              /\ last_op' = [op |-> "update_positions", time |-> current_time,
                             ret |-> r.new_order_id, no_data |-> FALSE, args |-> a,
                             highs |-> HighsAfter(OMState, r.s, candle.high)]
    /\ UNCHANGED env_vars

NextStops == StopsEnqueue \/ StopsUpdatePositions

SpecStops == Init /\ [][NextStops]_vars

\* C37: the exit price of a position closed as "SL Hit" is at most the
\* highest candle high the order manager was given for the position from its
\* entry candle to its exit candle
C37_StopFillWithinObservedHigh ==
    \A i \in DOMAIN closed_positions :
        closed_positions[i].exit_reason = "SL Hit"
            => closed_positions[i].exit_price
                   <= ObservedHighs[closed_positions[i].order_id]

----------------------------------------------------------------------------
\* C38: a call of update_positions with current_candle_time equal to the
\* entry_time of an open position leaves the position open with every field
\* as it was, and a position the call itself opens keeps the values
\* open_position gave it (price and highest price at the entry price, no
\* unrealized P&L, tp1_hit False, sl at the initial stop)
C38_EntryCandleFrame ==
    [][ last_op'.op = "update_positions" =>
          /\ \A order_id \in DOMAIN open_positions :
                open_positions[order_id].entry_time = last_op'.time
                    => /\ order_id \in DOMAIN open_positions'
                       /\ open_positions'[order_id] = open_positions[order_id]
          /\ \A order_id \in DOMAIN open_positions' \ DOMAIN open_positions :
                LET position == open_positions'[order_id]
                IN  /\ position.entry_time = last_op'.time
                    /\ position.current_price = position.entry_price
                    /\ position.highest_price = position.entry_price
                    /\ position.unrealized_pnl_points = 0
                    /\ position.unrealized_pnl_inr = 0
                    /\ ~position.tp1_hit
                    /\ position.sl = position.initial_sl
      ]_vars

\* update_positions was called again on the entry candle of an open position,
\* with a close above the entry price and a high that reaches TP1, and the
\* position still holds its opening values
C38_Witness ==
    /\ last_op.op = "update_positions"
    /\ last_op.ret = NoOrder
    /\ \E order_id \in DOMAIN open_positions :
         LET position == open_positions[order_id]
         IN  /\ position.entry_time = last_op.time
             /\ position.side = BUY_CE
             /\ last_op.args.ce_price > position.entry_price
             /\ last_op.args.ce_high >= position.tp1
             /\ position.current_price = position.entry_price
             /\ ~position.tp1_hit

----------------------------------------------------------------------------
\* C39: every step of the tick aggregator that closes the candles and starts
\* the candle-close callback has appended one NIFTY candle, stamped with the
\* start of the block that finished and later than the NIFTY candle before it
C39_CallbackAfterNewNiftyCandle ==
    [][ (cb_pc = "idle" /\ cb_pc' # "idle")
        => /\ nifty_buffer'.len = nifty_buffer.len + 1
           /\ LastRow(nifty_buffer').timestamp = current_candle_start
           /\ LastRow(nifty_buffer').timestamp > LastRow(nifty_buffer).timestamp
      ]_vars


\* ---------------------------------------------------------------------------
\* API server (Algo Baddu Trading API, Phase-4): TradingBot.start, stop and
\* the bot thread _run_bot_logic. The endpoints are coroutines of one event
\* loop, so start and stop run one at a time; the bot threads run beside
\* them. bot_threads holds the position of every thread start has created:
\* "init" (components, warm-up, start_websocket), "loop" (at the test of the
\* while), "sleep" (broadcast and time.sleep(1)), "exited".
\* ---------------------------------------------------------------------------
MaxBotThreads == 3

BotThreadAlive(pc) == pc # "exited"

AliveBotThreads == {i \in DOMAIN bot_threads : BotThreadAlive(bot_threads[i])}

bot_unchanged == <<om_vars, last_op, calc_vars, streamer_vars, trader_vars, now, last_poll, current_candles, current_candle_start, cb_pc, ws_tick, cb_signal, cb_signal_time>>

\* start(asset_type): refused only when status is RUNNING
BotStart ==
    /\ Len(bot_threads) < MaxBotThreads
    /\ status # "RUNNING"
    /\ status' = "STARTING"
    /\ bot_threads' = Append(bot_threads, "init")
    /\ UNCHANGED bot_unchanged

\* stop(): refused unless status is RUNNING; STOPPING, disconnect, STOPPED
BotStop ==
    /\ status = "RUNNING"
    /\ status' = "STOPPED"
    /\ UNCHANGED <<bot_threads, bot_unchanged>>

\* _run_bot_logic, steps 1 to 6 succeed: status becomes RUNNING
BotInitialised(i) ==
    /\ bot_threads[i] = "init"
    /\ status' = "RUNNING"
    /\ bot_threads' = [bot_threads EXCEPT ![i] = "loop"]
    /\ UNCHANGED bot_unchanged

\* _run_bot_logic raises (no instrument key, warm-up or broadcast failure)
BotFails(i) ==
    /\ bot_threads[i] \in {"init", "sleep"}
    /\ status' = "ERROR"
    /\ bot_threads' = [bot_threads EXCEPT ![i] = "exited"]
    /\ UNCHANGED bot_unchanged

\* while self.status == "RUNNING"
BotLoopTest(i) ==
    /\ bot_threads[i] = "loop"
    /\ bot_threads' = [bot_threads EXCEPT ![i] = IF status = "RUNNING" THEN "sleep" ELSE "exited"]
    /\ UNCHANGED <<status, bot_unchanged>>

\* broadcast_status and time.sleep(1) return
BotLoopSleep(i) ==
    /\ bot_threads[i] = "sleep"
    /\ bot_threads' = [bot_threads EXCEPT ![i] = "loop"]
    /\ UNCHANGED <<status, bot_unchanged>>

NextBot ==
    \/ BotStart
    \/ BotStop
    \/ \E i \in DOMAIN bot_threads : BotInitialised(i)
    \/ \E i \in DOMAIN bot_threads : BotFails(i)
    \/ \E i \in DOMAIN bot_threads : BotLoopTest(i)
    \/ \E i \in DOMAIN bot_threads : BotLoopSleep(i)

SpecBot == Init /\ [][NextBot]_vars

\* C40: at most one bot thread of the TradingBot is alive at any time: a
\* start issued while an earlier start is still initialising or running, or
\* before a stopped thread has left its loop, creates no second thread.
C40_AtMostOneBotThread == Cardinality(AliveBotThreads) <= 1

====
